---- MODULE Spec2Model ----
(***************************************************************************)
(* Model of the crm-email ingestion / reconciliation core:                 *)
(*   - RabbitMQConsumer.callback and _process_message_sync (consumers.py)  *)
(*   - EventProcessor.process_message, _route_event,                       *)
(*     process_embedding_response, store_received_embeddings               *)
(*   - PipelineService.process_upload / process_edit                       *)
(*   - DeleteFileServices.delete_embeddings                                *)
(*   - QdrantEmbeddingStore.store                                          *)
(*   - ChatCache (check_access, get/set_conversation, invalidation)        *)
(*                                                                         *)
(* Python None and an absent dictionary key are both written NoVal.        *)
(* Strings that the code compares character by character (chunk keys) are  *)
(* sequences of character codes: 0..9 are the digits '0'..'9', larger      *)
(* codes are letters (digits sort before letters, as in ASCII).            *)
(***************************************************************************)
EXTENDS Integers, Sequences, FiniteSets, TLC

VARIABLES
    points,     \* the Qdrant collection: a set of points [id, payload fields]
    cache,      \* the Redis chatcache: namespace: a function key -> entry
    outbox,     \* embedding tasks published to the broker, in publish order
    last,       \* what the most recent operation did (its input and outcome)
    broker,     \* the RabbitMQ broker as the clients find it: "up" or "down"
    producer,   \* a RabbitMQProducer: its channel and its connection manager
    consumer,   \* a RabbitMQConsumer: one consume_queue thread, or the object and its threads
    manager,    \* a RabbitMQConnection used on its own: connection, is_initialized
    handled,    \* the lifecycle events handled: each one's task and its result's fate
    collection, \* the Qdrant collection itself: absent, or its vector parameters
    reconcilers \* store() calls in progress: each one's position and what it saw

\* The message-queue clients and their broker.
mqvars == <<broker, producer, consumer, manager>>

\* The embedding worker's answers and the reconciliations at work on them.
rcvars == <<handled, collection, reconcilers>>

vars == <<points, cache, outbox, last, broker, producer, consumer, manager, handled, collection, reconcilers>>

NoVal == "none"

\* The collection as initialize_qdrant leaves it at start-up: vectors of the
\* configured size, cosine distance.
ConfiguredCollection == [size |-> "EMBEDDING_DIM", distance |-> "COSINE"]

\* No event handled, the collection in place, no store() call under way.
NoReconciliation ==
    /\ handled = << >>
    /\ collection = ConfiguredCollection
    /\ reconcilers = << >>

\* ---------------------------------------------------------------- bounds
MaxPoints == 2
MaxOutbox == 1
MaxCache == 1
MaxStored == 2
MaxCached == 1
MaxEntries == 2
MaxReconciled == 4
\* The splitter's inputs: words of prose on each side of a table, the largest
\* max_tokens and context_window_tokens, the longest unbroken text.
MaxWords == 2
MaxTokens == 12
MaxWindow == 1
MaxRun == 1002
\* Messages a producer publishes.
MaxPublished == 2
\* Turns of the consumer's retry loop that are counted.
MaxAttempts == 3

\* Connections one manager opens.
MaxOpened == 3
\* start() and stop(): threads started on one consumer.
MaxThreads == 2

\* store() calls that one behaviour begins.
MaxStores == 2
\* Edit flow: lifecycle events of one resource handled.
MaxHandled == 3

\* ------------------------------------------------------------ small helpers
Min(a, b) == IF a < b THEN a ELSE b

RECURSIVE SeqSum(_)
SeqSum(s) == IF s = << >> THEN 0 ELSE Head(s) + SeqSum(Tail(s))

\* ------------------------------------------------------------------ constant.py
EVENTS == {"create_embedding", "batch_embedding", "edit_embedding",
           "delete_embedding", "embedding_response", "event_response"}

\* ------------------------------------------------- rabbitmq_event_models.py
\* ResourceEvent: the fields without a default, under the names the wire uses
\* (resource_id, file_name and file_path are populated through their aliases
\* id, resource_name and resource_path only).
ResourceEventRequired ==
    {"id", "service_name", "extraction_type", "user_id", "organization_id",
     "resource_name", "resource_path"}

\* ResourceEvent(**message): TRUE iff validation succeeds.
ResourceEventValid(m) == ResourceEventRequired \subseteq m.keys

\* EmbeddingResponse: resource_id (alias id) and service_name have no default.
EmbeddingResponseRequired == {"id", "service_name"}

\* EmbeddingResponse(**message): TRUE iff validation succeeds.
EmbeddingResponseValid(m) == EmbeddingResponseRequired \subseteq m.keys

\* The value of an optional field of a parsed model (None when the key is absent).
FieldOf(m, k) == IF k \in m.keys THEN m[k] ELSE NoVal

\* ------------------------------------------------------------- chunk keys
\* str.isdigit(): non-empty and every character a digit.
IsDigit(k) == Len(k) > 0 /\ \A i \in DOMAIN k : k[i] \in 0..9

\* int(k) for a key that isdigit().
RECURSIVE ToInt(_)
ToInt(k) == IF k = << >> THEN 0 ELSE 10 * ToInt(SubSeq(k, 1, Len(k) - 1)) + k[Len(k)]

\* Python's < on two str values: lexicographic by character code.
RECURSIVE StrLess(_, _)
StrLess(a, b) ==
    IF b = << >> THEN FALSE
    ELSE IF a = << >> THEN TRUE
    ELSE IF Head(a) # Head(b) THEN Head(a) < Head(b)
    ELSE StrLess(Tail(a), Tail(b))

\* The sort key of line 201/253: int(k) if k.isdigit() else k, tagged by type.
SortKey(k) == IF IsDigit(k) THEN [int |-> TRUE, n |-> ToInt(k), s |-> << >>]
              ELSE [int |-> FALSE, n |-> 0, s |-> k]

\* a < b on two sort keys of the same type.
KeyLess(a, b) == IF a.int THEN a.n < b.n ELSE StrLess(a.s, b.s)

\* list.sort raises TypeError as soon as an int key meets a str key, which
\* happens for every list of two or more items that holds both kinds.
SortRaises(items) ==
    \E i, j \in DOMAIN items : SortKey(items[i][1]).int /\ ~SortKey(items[j][1]).int

\* Stable insertion of x into an already sorted list: after every element
\* that is not greater than x.
RECURSIVE InsertSorted(_, _)
InsertSorted(sorted, x) ==
    IF sorted = << >> THEN <<x>>
    ELSE IF KeyLess(SortKey(x[1]), SortKey(sorted[Len(sorted)][1]))
         THEN Append(InsertSorted(SubSeq(sorted, 1, Len(sorted) - 1), x),
                     sorted[Len(sorted)])
         ELSE Append(sorted, x)

\* No sort: the items in the order the wire map carries them.
WireOrder(items) == items

\* chunk_items.sort(key=...): the stable sort of the (key, payload) items.
RECURSIVE SortChunkItems(_)
SortChunkItems(items) ==
    IF items = << >> THEN << >>
    ELSE InsertSorted(SortChunkItems(SubSeq(items, 1, Len(items) - 1)),
                      items[Len(items)])

\* chunk.get("text") or chunk.get("content") or "" ("" is also the absent key).
ChunkText(p) == IF p.text # "" THEN p.text
                ELSE IF p.content # "" THEN p.content ELSE ""

\* ------------------------------------------------ embedding_store_service.py
\* uuid.uuid4().hex: an id no stored point carries (the least unused one).
FreshId(used) == CHOOSE i \in 1..(Cardinality(used) + 1) :
                    i \notin used /\ \A j \in 1..(i - 1) : j \in used

\* The loop of store(): one point per index below total, in index order; a
\* vector that is not a non-empty list is skipped, its index is not reused.
RECURSIVE BuildPoints(_, _, _, _, _, _, _)
BuildPoints(embeddings, chunks, rid, org, total, i, used) ==
    IF i >= total THEN {}
    ELSE IF embeddings[i + 1] = << >>
         THEN BuildPoints(embeddings, chunks, rid, org, total, i + 1, used)
         ELSE LET id == FreshId(used)
              IN  {[id |-> id, vector |-> embeddings[i + 1],
                    resource_id |-> rid, organization_id |-> org,
                    chunk_index |-> i, total_chunks |-> total,
                    text |-> chunks[i + 1]]}
                  \cup BuildPoints(embeddings, chunks, rid, org, total, i + 1,
                                   used \cup {id})

\* An upsert that replaces the stored point of the same resource and chunk
\* index instead of adding a point next to it.
UpsertByChunk(new, storeUp, pts) ==
    IF new = {} THEN [ok |-> TRUE, raised |-> FALSE, pts |-> pts]
    ELSE IF ~storeUp THEN [ok |-> FALSE, raised |-> TRUE, pts |-> pts]
    ELSE [ok |-> TRUE, raised |-> FALSE,
          pts |-> {p \in pts : ~\E q \in new : /\ q.resource_id = p.resource_id
                                               /\ q.chunk_index = p.chunk_index}
                  \cup new]

\* An upsert that sends the points one call each: the first is written before
\* an unreachable store makes the next call raise.
UpsertPointByPoint(new, storeUp, pts) ==
    IF new = {} THEN [ok |-> TRUE, raised |-> FALSE, pts |-> pts]
    ELSE IF ~storeUp
         THEN [ok |-> FALSE, raised |-> TRUE,
               pts |-> pts \cup {CHOOSE p \in new : p.chunk_index = 0}]
    ELSE [ok |-> TRUE, raised |-> FALSE, pts |-> pts \cup new]

\* client.upsert(points) at the end of store(): nothing is sent when the loop
\* built no point; the one batched call raises when the store is unreachable.
\* The result is [ok, raised, pts]: pts is the collection afterwards.
Upsert(new, storeUp, pts) ==
    IF new = {} THEN [ok |-> TRUE, raised |-> FALSE, pts |-> pts]
    ELSE IF ~storeUp THEN [ok |-> FALSE, raised |-> TRUE, pts |-> pts]
    ELSE [ok |-> TRUE, raised |-> FALSE, pts |-> pts \cup new]

\* QdrantEmbeddingStore.store: returns 0 at once when a list is empty; else
\* builds the points of the first min(len, len) pairs and upserts them.
Store(embeddings, chunks, rid, org, storeUp, pts) ==
    IF embeddings = << >> \/ chunks = << >>
    THEN [ok |-> TRUE, raised |-> FALSE, pts |-> pts]
    ELSE Upsert(BuildPoints(embeddings, chunks, rid, org,
                            Min(Len(embeddings), Len(chunks)), 0,
                            {p.id : p \in pts}),
                storeUp, pts)

\* ------------------------------------------------------- event_processing.py
\* The pairs zip(embeddings, chunk_texts) keeps: those whose vector is a
\* non-empty list of numbers (lines 272-277).  Returns the kept indices.
ValidPairs(embeddings, texts) ==
    LET n == Min(Len(embeddings), Len(texts))
    IN  SelectSeq([i \in 1..n |-> i], LAMBDA i : embeddings[i] # << >>)

\* valid_embeddings and valid_chunks: the vectors and the texts of the kept pairs.
ValidEmbeddings(embeddings, texts) ==
    [i \in 1..Len(ValidPairs(embeddings, texts)) |->
        embeddings[ValidPairs(embeddings, texts)[i]]]

ValidChunks(embeddings, texts) ==
    [i \in 1..Len(ValidPairs(embeddings, texts)) |->
        texts[ValidPairs(embeddings, texts)[i]]]

\* chunk_texts: the text of every chunk payload, in the order of the items.
ChunkTexts(items) == [i \in 1..Len(items) |-> ChunkText(items[i][2])]

\* The second half of store_received_embeddings: drop the pairs with an
\* invalid vector and store the rest.
StoreValid(m, chunk_texts, storeUp, pts) ==
    Store(ValidEmbeddings(m.embeddings, chunk_texts),
          ValidChunks(m.embeddings, chunk_texts),
          m.id, FieldOf(m, "organization_id"), storeUp, pts)

\* EventProcessor.store_received_embeddings: sort the chunk items, take their
\* texts, drop the pairs with an invalid vector, store the rest; an exception
\* is logged and re-raised.
StoreReceivedEmbeddings(m, storeUp, pts) ==
    IF SortRaises(m.chunks) THEN [ok |-> FALSE, raised |-> TRUE, pts |-> pts]
    ELSE StoreValid(m, ChunkTexts(SortChunkItems(m.chunks)), storeUp, pts)

\* str.lower() on the status values the model draws.
Lower(s) == IF s = "SUCCESS" THEN "success" ELSE s

\* The status after (embedding_response.status or "success").lower().
StatusOf(m) == Lower(IF FieldOf(m, "status") = NoVal THEN "success" ELSE m.status)

\* A try block of process_embedding_response that goes on to persist
\* whatever status the result reports.
TryProcessEmbeddingResponseAnyStatus(m, storeUp, pts) ==
    IF ~EmbeddingResponseValid(m) THEN [ok |-> FALSE, raised |-> TRUE, pts |-> pts]
    ELSE IF SortRaises(m.chunks) THEN [ok |-> FALSE, raised |-> TRUE, pts |-> pts]
    ELSE IF m.embeddings = << >> \/ m.chunks = << >>
         THEN [ok |-> FALSE, raised |-> FALSE, pts |-> pts]
    ELSE StoreReceivedEmbeddings(m, storeUp, pts)

\* The try block of EventProcessor.process_embedding_response: validation,
\* the status check, the sort, the emptiness check, then persistence.
\* raised tells that an exception left the block.
TryProcessEmbeddingResponse(m, storeUp, pts) ==
    IF ~EmbeddingResponseValid(m) THEN [ok |-> FALSE, raised |-> TRUE, pts |-> pts]
    ELSE IF StatusOf(m) \notin {"success", "partial"}
         THEN [ok |-> FALSE, raised |-> FALSE, pts |-> pts]
    ELSE IF SortRaises(m.chunks) THEN [ok |-> FALSE, raised |-> TRUE, pts |-> pts]
    ELSE IF m.embeddings = << >> \/ m.chunks = << >>
         THEN [ok |-> FALSE, raised |-> FALSE, pts |-> pts]
    ELSE StoreReceivedEmbeddings(m, storeUp, pts)

\* The except clause of process_embedding_response: an exception of the try
\* block is logged and becomes the return value False.
ExceptReturnFalse(r) ==
    IF r.raised THEN [r EXCEPT !.ok = FALSE, !.raised = FALSE] ELSE r

\* EventProcessor.process_embedding_response.
ProcessEmbeddingResponse(m, storeUp, pts) ==
    ExceptReturnFalse(TryProcessEmbeddingResponse(m, storeUp, pts))

\* ------------------------------------------------------------- chat_cache.py
\* Embedding components are integers in units of 0.001.
COSINE_SIMILARITY_THRESHOLD_PCT == 90

\* np.round(x, 2) on one component: to the nearest multiple of 0.01, a tie
\* going to the even multiple.
Round2(x) ==
    LET r  == x % 10
        lo == x - r
    IN  IF r < 5 THEN lo
        ELSE IF r > 5 THEN lo + 10
        ELSE IF (lo \div 10) % 2 = 0 THEN lo ELSE lo + 10

\* generate_questions_semantic_fingerprint: sha256 of the rounded vector
\* (the hash is taken to be collision free, so the rounded vector stands for it).
SemanticFingerprint(embedding) == [i \in DOMAIN embedding |-> Round2(embedding[i])]

\* generate_cache_key: sha256 of "fingerprint:organization_id:doc_fingerprint".
GenerateCacheKey(embedding, organization_id, doc_fingerprint) ==
    <<SemanticFingerprint(embedding), organization_id, doc_fingerprint>>

\* check_access: org-wide, or a shared role, or a listed user.
CheckAccess(user_id, user_roles, result) ==
    \/ result.is_org_wide
    \/ user_roles \cap result.allowed_roles # {}
    \/ user_id \in result.allowed_user_ids

Dot(a, b) == SeqSum([i \in DOMAIN a |-> a[i] * b[i]])

\* _cosine_similarity(vec1, vec2) >= 0.90, without the square root: 0.0 when
\* a norm is zero, else dot / (|vec1| |vec2|).
Similar(vec1, vec2) ==
    /\ Dot(vec1, vec1) # 0
    /\ Dot(vec2, vec2) # 0
    /\ Dot(vec1, vec2) > 0
    /\ 10000 * Dot(vec1, vec2) * Dot(vec1, vec2)
         >= COSINE_SIMILARITY_THRESHOLD_PCT * COSINE_SIMILARITY_THRESHOLD_PCT
            * Dot(vec1, vec1) * Dot(vec2, vec2)

\* cached_embedding.any(): some component is non-zero.
AnyNonZero(vec) == \E i \in DOMAIN vec : vec[i] # 0

\* A soft-match loop that returns the first similar entry without consulting
\* check_access.
RECURSIVE SoftMatchNoAccess(_, _, _, _, _)
SoftMatchNoAccess(order, store, embedding, user_id, user_roles) ==
    IF order = << >> THEN [found |-> FALSE, key |-> NoVal, data |-> NoVal]
    ELSE LET data == store[Head(order)]
         IN  IF AnyNonZero(data.embedding) /\ Similar(embedding, data.embedding)
             THEN [found |-> TRUE, key |-> Head(order), data |-> data]
             ELSE SoftMatchNoAccess(Tail(order), store, embedding, user_id,
                                    user_roles)

\* The soft-match loop of get_conversation over the keys in scan order: the
\* first entry whose embedding is similar enough and that passes check_access.
RECURSIVE SoftMatch(_, _, _, _, _)
SoftMatch(order, store, embedding, user_id, user_roles) ==
    IF order = << >> THEN [found |-> FALSE, key |-> NoVal, data |-> NoVal]
    ELSE LET data == store[Head(order)]
         IN  IF /\ AnyNonZero(data.embedding)
                /\ Similar(embedding, data.embedding)
                /\ CheckAccess(user_id, user_roles, data)
             THEN [found |-> TRUE, key |-> Head(order), data |-> data]
             ELSE SoftMatch(Tail(order), store, embedding, user_id, user_roles)

\* A get_conversation that stops at an exact-key entry the caller may not
\* read instead of going on to the soft match.
GetConversationNoFallThrough(embedding, organization_id, user_id, user_roles, doc_fingerprint, order, store) ==
    LET cache_key == GenerateCacheKey(embedding, organization_id, doc_fingerprint)
    IN  IF cache_key \in DOMAIN store
        THEN IF CheckAccess(user_id, user_roles, store[cache_key])
             THEN [found |-> TRUE, key |-> cache_key, data |-> store[cache_key]]
             ELSE [found |-> FALSE, key |-> NoVal, data |-> NoVal]
        ELSE SoftMatch(order, store, embedding, user_id, user_roles)

\* ChatCache.get_conversation: the exact key first, then the soft match.
\* order is the order in which scan_iter yields the keys.
GetConversationResult(embedding, organization_id, user_id, user_roles, doc_fingerprint, order, store) ==
    LET cache_key == GenerateCacheKey(embedding, organization_id, doc_fingerprint)
    IN  IF cache_key \in DOMAIN store
           /\ CheckAccess(user_id, user_roles, store[cache_key])
        THEN [found |-> TRUE, key |-> cache_key, data |-> store[cache_key]]
        ELSE SoftMatch(order, store, embedding, user_id, user_roles)

\* A set_conversation that keeps what is already stored under the key.
SetConversationKeepsFirst(embedding, organization_id, doc_fingerprint, data, store) ==
    IF GenerateCacheKey(embedding, organization_id, doc_fingerprint) \in DOMAIN store
    THEN store
    ELSE [k \in DOMAIN store
                \cup {GenerateCacheKey(embedding, organization_id, doc_fingerprint)} |->
            IF k = GenerateCacheKey(embedding, organization_id, doc_fingerprint)
            THEN [data EXCEPT !.embedding = embedding] ELSE store[k]]

\* ChatCache.set_conversation: the embedding is added to the payload, which is
\* written under the cache key (overwriting what was there).
SetConversationResult(embedding, organization_id, doc_fingerprint, data, store) ==
    LET cache_key == GenerateCacheKey(embedding, organization_id, doc_fingerprint)
        stored    == [data EXCEPT !.embedding = embedding]
    IN  [k \in DOMAIN store \cup {cache_key} |->
            IF k = cache_key THEN stored ELSE store[k]]

\* invalidate_cache_by_resource_id that stops at the first entry that lists
\* the resource.
InvalidateFirstMatch(resource_id, store) ==
    LET keys_to_delete == {x \in DOMAIN store : resource_id \in store[x].resource_ids}
    IN  IF keys_to_delete = {} THEN store
        ELSE [k \in DOMAIN store \ {CHOOSE x \in keys_to_delete : TRUE} |-> store[k]]

\* ChatCache.invalidate_cache_by_resource_id: delete every entry whose
\* resource_ids lists the resource.
InvalidateCacheByResourceId(resource_id, store) ==
    [k \in {x \in DOMAIN store : resource_id \notin store[x].resource_ids} |->
        store[k]]

\* ------------------------------------------------- delete_file_services.py
\* The filter of delete_embeddings: resource_id, and organization_id when the
\* event carries a non-empty one.
MatchesDeleteFilter(p, resource_id, organization_id) ==
    /\ p.resource_id = resource_id
    /\ organization_id # "" => p.organization_id = organization_id

\* A delete_embeddings that deletes the points first and invalidates the
\* cache afterwards.
DeleteEmbeddingsPointsFirst(m, env, st) ==
    IF m.id = "" THEN [raised |-> FALSE, pts |-> st.pts, store |-> st.store, out |-> st.out]
    ELSE IF ~env.storeUp
         THEN [raised |-> TRUE, pts |-> st.pts, store |-> st.store, out |-> st.out]
    ELSE LET kept == {p \in st.pts : ~MatchesDeleteFilter(p, m.id, m.organization_id)}
         IN  IF ~env.cacheUp
             THEN [raised |-> TRUE, pts |-> kept, store |-> st.store, out |-> st.out]
             ELSE [raised |-> FALSE, pts |-> kept,
                   store |-> InvalidateCacheByResourceId(m.id, st.store), out |-> st.out]

\* DeleteFileServices.delete_embeddings: nothing for an empty resource_id;
\* else invalidate the cache, then delete the matching points.  Either call
\* raises when its store is unreachable, and the exception is re-raised.
\* env is [storeUp, cacheUp, brokerUp, extractOk, visionOk, texts]; st is
\* [pts, store, out].
DeleteEmbeddings(m, env, st) ==
    IF m.id = "" THEN [raised |-> FALSE, pts |-> st.pts, store |-> st.store, out |-> st.out]
    ELSE IF ~env.cacheUp
         THEN [raised |-> TRUE, pts |-> st.pts, store |-> st.store, out |-> st.out]
    ELSE LET invalidated == InvalidateCacheByResourceId(m.id, st.store)
         IN  IF ~env.storeUp
             THEN [raised |-> TRUE, pts |-> st.pts, store |-> invalidated, out |-> st.out]
             ELSE [raised |-> FALSE,
                   pts |-> {p \in st.pts :
                              ~MatchesDeleteFilter(p, m.id, m.organization_id)},
                   store |-> invalidated, out |-> st.out]

\* ------------------------------------------------------- event_processing.py
\* EventProcessor._determine_file_type on the path's extension.
DetermineFileType(ext) == IF ext \in {"pdf", "docx"} THEN ext ELSE "zeta"

\* ------------------------------------------------------- pipeline_service.py
\* PipelineService._extract_texts: PDFEmbedder has no load_and_split_docx, so
\* a docx raises AttributeError; the other loaders return the chunk texts
\* (env.texts) or raise (env.extractOk is FALSE).  It is the only extraction
\* the upload transition attempts: document_to_images (env.visionOk says
\* whether it would return) is called by PDFEmbedder.add_embeddings_from_file
\* alone, which no event is routed to.
ExtractRaises(file_type, env) == file_type = "docx" \/ ~env.extractOk

\* EmbeddingTaskService.queue_texts + rabbitmq_producer: the task message, or
\* nothing when the broker is unreachable (publish_message only logs).
QueueTexts(m, texts, env, out) ==
    IF env.brokerUp
    THEN Append(out, [event |-> "create_embedding", resource_id |-> m.id,
                      texts |-> texts,
                      organization_id |-> IF m.organization_id # ""
                                          THEN m.organization_id ELSE NoVal])
    ELSE out

\* PipelineService.process_upload: extract, then queue; queue_texts raises
\* ValueError on an empty list.
ProcessUpload(m, env, st) ==
    IF ExtractRaises(DetermineFileType(m.ext), env) \/ env.texts = << >>
    THEN [raised |-> TRUE, pts |-> st.pts, store |-> st.store, out |-> st.out]
    ELSE [raised |-> FALSE, pts |-> st.pts, store |-> st.store,
          out |-> QueueTexts(m, env.texts, env, st.out)]

\* The stores as a call left them, whether it returned or raised.
StateAfter(r) == [pts |-> r.pts, store |-> r.store, out |-> r.out]

\* process_edit without its try/except: a failed delete ends the edit.
ProcessEditUnguarded(m, env, st) ==
    IF DeleteEmbeddings(m, env, st).raised THEN DeleteEmbeddings(m, env, st)
    ELSE ProcessUpload(m, env, StateAfter(DeleteEmbeddings(m, env, st)))

\* A process_edit that re-ingests first and deletes afterwards: an upload
\* transition that raises ends it before anything is deleted.
ProcessEditUploadFirst(m, env, st) ==
    IF ProcessUpload(m, env, st).raised THEN ProcessUpload(m, env, st)
    ELSE [DeleteEmbeddings(m, env, StateAfter(ProcessUpload(m, env, st)))
            EXCEPT !.raised = FALSE]

\* PipelineService.process_edit: delete (a failure is logged and swallowed),
\* then the upload transition.
ProcessEdit(m, env, st) ==
    ProcessUpload(m, env, StateAfter(DeleteEmbeddings(m, env, st)))

\* ------------------------------------------------------- event_processing.py
\* EventProcessor._route_event; any other event name returns True untouched.
RouteEvent(m, env, st) ==
    IF m.event \in {"upload_resource", "create_resource"} THEN ProcessUpload(m, env, st)
    ELSE IF m.event = "delete_resource" THEN DeleteEmbeddings(m, env, st)
    ELSE IF m.event = "edit_resource" THEN ProcessEdit(m, env, st)
    ELSE [raised |-> FALSE, pts |-> st.pts, store |-> st.store, out |-> st.out]

\* The finally block of process_message after process_embedding_response
\* returned r: success is its return value; the cache and the outbound queue
\* are not touched.
ReturnResponse(r, st) ==
    [success |-> r.ok, raised |-> r.raised, escaped |-> FALSE,
     pts |-> r.pts, store |-> st.store, out |-> st.out]

\* The finally block of process_message after _route_event: success is True
\* unless the handler raised, and the exception in flight is discarded.
ReturnRouted(r) ==
    [success |-> ~r.raised, raised |-> r.raised, escaped |-> FALSE,
     pts |-> r.pts, store |-> r.store, out |-> r.out]

\* EventProcessor.process_message on a dict message.  The return statement of
\* the finally block discards an exception in flight, so the call always
\* returns (success, time): raised records that an exception was discarded.
ProcessMessage(m, env, st) ==
    IF m.event \in {"embedding_response", "event_response", "embeddi_response"}
    THEN ReturnResponse(ProcessEmbeddingResponse(m, env.storeUp, st.pts), st)
    ELSE IF m.event \in {"create_embedding", "batch_embedding"}
    THEN [success |-> TRUE, raised |-> FALSE, escaped |-> FALSE,
          pts |-> st.pts, store |-> st.store, out |-> st.out]
    ELSE IF ~ResourceEventValid(m)
    THEN [success |-> FALSE, raised |-> FALSE, escaped |-> FALSE,
          pts |-> st.pts, store |-> st.store, out |-> st.out]
    ELSE ReturnRouted(RouteEvent(m, env, st))

\* ------------------------------------------------------------- consumers.py
LifecycleEvents == {"create_resource", "upload_resource", "edit_resource",
                    "delete_resource"}

\* The channel calls of a callback run, in order.
BasicAck  == [call |-> "basic_ack", requeue |-> FALSE]
BasicNack == [call |-> "basic_nack", requeue |-> FALSE]

\* A run that settles without calling the handler.
Reject(st) ==
    [calls |-> <<BasicNack>>, escaped |-> FALSE, invoked |-> FALSE,
     success |-> FALSE, raised |-> FALSE,
     pts |-> st.pts, store |-> st.store, out |-> st.out]

\* ch.basic_ack after process_message returned pm: the return value is not
\* read; an exception leaving process_message would skip the ack.
AckAfter(pm) ==
    [calls |-> IF pm.escaped THEN << >> ELSE <<BasicAck>>,
     escaped |-> pm.escaped, invoked |-> TRUE,
     success |-> pm.success, raised |-> pm.raised,
     pts |-> pm.pts, store |-> pm.store, out |-> pm.out]

\* process_message(payload) followed by basic_ack.
HandleThenAck(m, env, st) == AckAfter(ProcessMessage(m, env, st))

\* The except clause of a try block: an exception that reached it is answered
\* by basic_nack(requeue=False) and goes no further.
Except(r) == IF r.escaped
             THEN [r EXCEPT !.calls = Append(r.calls, BasicNack), !.escaped = FALSE]
             ELSE r

\* RabbitMQConsumer._process_message_sync: the events outside EVENTS.
ProcessMessageSync(m, env, st) ==
    Except(IF m.event \in LifecycleEvents THEN HandleThenAck(m, env, st)
           ELSE Reject(st))

\* A statement of callback's try block that raises before any dispatch.
Raise(st) ==
    [calls |-> << >>, escaped |-> TRUE, invoked |-> FALSE, success |-> FALSE,
     raised |-> FALSE, pts |-> st.pts, store |-> st.store, out |-> st.out]

\* Mutant of CallbackOutcome: only json.JSONDecodeError is caught, so the
\* AttributeError of a non-object body leaves callback unsettled.
CallbackOutcomeNarrowExcept(m, env, st) ==
    IF m.body = "badjson" THEN Except(Raise(st))
    ELSE IF m.body = "nondict" THEN Raise(st)
    ELSE IF m.event = NoVal THEN Reject(st)
    ELSE IF m.event \in EVENTS THEN Except(HandleThenAck(m, env, st))
    ELSE Except(ProcessMessageSync(m, env, st))

\* Mutant of CallbackOutcome: no check for a missing event key; the payload
\* is handed to process_message and acknowledged.
CallbackOutcomeNoEventCheck(m, env, st) ==
    IF m.body = "badjson" THEN Except(Raise(st))
    ELSE IF m.body = "nondict" THEN Except(Raise(st))
    ELSE IF m.event = NoVal THEN Except(HandleThenAck(m, env, st))
    ELSE IF m.event \in EVENTS THEN Except(HandleThenAck(m, env, st))
    ELSE Except(ProcessMessageSync(m, env, st))

\* RabbitMQConsumer.callback.  body is "badjson" (json.loads raises), "nondict"
\* (valid JSON that is no object: payload.get raises AttributeError) or "dict".
CallbackOutcome(m, env, st) ==
    IF m.body = "badjson" THEN Except(Raise(st))
    ELSE IF m.body = "nondict" THEN Except(Raise(st))
    ELSE IF m.event = NoVal THEN Reject(st)
    ELSE IF m.event \in EVENTS THEN Except(HandleThenAck(m, env, st))
    ELSE Except(ProcessMessageSync(m, env, st))

\* ------------------------------------------------------------------ inputs
Msg(body, event, keys, id, org, ext, status, embeddings, chunks) ==
    [body |-> body, event |-> event, keys |-> keys, id |-> id,
     organization_id |-> org, ext |-> ext, status |-> status,
     embeddings |-> embeddings, chunks |-> chunks]

Vec == <<1>>

Chunk(key, text) == <<key, [text |-> text, content |-> ""]>>

\* An embedding result of one chunk.
Result1(event, keys, rid, org, status) ==
    Msg("dict", event, keys, rid, org, NoVal, status, <<Vec>>, <<Chunk(<<0>>, "a")>>)

\* Bodies that carry no usable event.
BadMsgs ==
    { Msg("badjson", NoVal, {}, NoVal, NoVal, NoVal, NoVal, << >>, << >>),
      Msg("nondict", NoVal, {}, NoVal, NoVal, NoVal, NoVal, << >>, << >>),
      Msg("dict", NoVal, {"id"}, "r1", NoVal, NoVal, NoVal, << >>, << >>),
      Msg("dict", "ping", {"id"}, "r1", NoVal, NoVal, NoVal, << >>, << >>),
      Result1("embeddi_response", {"id", "service_name", "status"}, "r1", NoVal,
              "success") }

Lifecycle(event, keys, rid, org, ext) ==
    Msg("dict", event, keys, rid, org, ext, NoVal, << >>, << >>)

\* Lifecycle events (and the EVENTS members that take the lifecycle branch).
LifecycleMsgs ==
    { Lifecycle("upload_resource", ResourceEventRequired, "r1", "o1", "pdf"),
      Lifecycle("upload_resource", ResourceEventRequired, "r1", "o1", "docx"),
      Lifecycle("create_resource", ResourceEventRequired, "r1", "o1", "html"),
      Lifecycle("edit_resource", ResourceEventRequired, "r1", "o1", "pdf"),
      Lifecycle("upload_resource", ResourceEventRequired \ {"id"}, NoVal, "o1", "pdf"),
      Lifecycle("delete_resource",
                ResourceEventRequired \ {"service_name", "extraction_type"},
                "r1", "o1", "pdf"),
      Lifecycle("delete_resource", ResourceEventRequired, "", "o1", "pdf"),
      Lifecycle("edit_embedding", ResourceEventRequired, "r1", "o1", "pdf"),
      Msg("dict", "create_embedding", {"resource_id"}, NoVal, NoVal, NoVal,
          NoVal, << >>, << >>) }

\* delete_resource events for each resource, with and without an organization.
DeleteMsgs ==
    { Lifecycle("delete_resource", ResourceEventRequired, "r1", o, "pdf") :
        o \in {"", "o1", "o2"} }
    \cup { Lifecycle("delete_resource", ResourceEventRequired, "r2", "o1", "pdf") }

\* One-chunk embedding results; organization_id is optional in a result.
SmallResultMsgs ==
    { Result1("embedding_response", {"id", "service_name", "organization_id"},
              "r1", "o1", NoVal),
      Result1("event_response", {"id", "service_name", "status"}, "r1", NoVal,
              "failed"),
      Result1("embedding_response", {"resource_id", "status"}, "r1", NoVal,
              "success"),
      Result1("embedding_response", {"resource_id", "service_name", "status"},
              "r1", NoVal, "success") }

Messages ==
    BadMsgs \cup LifecycleMsgs \cup SmallResultMsgs
    \cup {Lifecycle("delete_resource", ResourceEventRequired, "r1", "o1", "pdf")}

AllUp == [storeUp |-> TRUE, cacheUp |-> TRUE, brokerUp |-> TRUE,
          extractOk |-> TRUE, visionOk |-> TRUE, texts |-> <<"a">>]

\* The collaborators' behaviours that the handling of m can observe; the
\* others are left reachable.
EnvsFor(m) ==
    IF m.body # "dict" \/ m.event = NoVal THEN {AllUp}
    ELSE IF m.event \in {"upload_resource", "create_resource"}
    THEN {[AllUp EXCEPT !.brokerUp = b, !.extractOk = x, !.visionOk = v, !.texts = t] :
            b \in BOOLEAN, x \in BOOLEAN, v \in BOOLEAN, t \in {<< >>, <<"a">>}}
    ELSE IF m.event = "delete_resource"
    THEN {[AllUp EXCEPT !.storeUp = s, !.cacheUp = c] : s, c \in BOOLEAN}
    ELSE IF m.event = "edit_resource"
    THEN {[AllUp EXCEPT !.storeUp = s, !.cacheUp = c, !.extractOk = x] :
            s, c, x \in BOOLEAN}
    ELSE {[AllUp EXCEPT !.storeUp = s] : s \in BOOLEAN}

\* Cached conversations that depend on resources (the access fields are the
\* subject of SpecCache).
Entry(org_wide, roles, users, rids) ==
    [embedding |-> << >>, is_org_wide |-> org_wide, allowed_roles |-> roles,
     allowed_user_ids |-> users, resource_ids |-> rids]

DependentEntries == { Entry(TRUE, {}, {}, rids) : rids \in {{"r1"}, {"r2"}, {"r1", "r2"}} }

\* One-chunk results of each resource, with and without an organization.
OrgResultMsgs ==
    { Result1("embedding_response", {"id", "service_name", "status"}, "r1",
              NoVal, "success"),
      Result1("embedding_response", {"id", "service_name", "organization_id"},
              "r1", "o1", NoVal),
      Result1("embedding_response", {"id", "service_name", "organization_id"},
              "r1", "o2", NoVal),
      Result1("embedding_response", {"id", "service_name", "organization_id"},
              "r2", "o1", NoVal) }

\* ----------------------------------------------------------------- actions
Init ==
    /\ points = {}
    /\ cache = << >>
    /\ outbox = << >>
    /\ last = [op |-> "init"]
    /\ broker = "up"
    /\ producer = NoVal
    /\ consumer = NoVal
    /\ manager = NoVal
    /\ NoReconciliation

\* One delivery handled by RabbitMQConsumer.callback, start to settlement:
\* what it does to the stores and the outbound queue.
Handled(m, env) ==
    \E o \in {CallbackOutcome(m, env, [pts |-> points, store |-> cache, out |-> outbox])} :
        /\ points' = o.pts
        /\ cache' = o.store
        /\ outbox' = o.out
        /\ last' = [op |-> "callback", msg |-> m,
                    storeUp |-> env.storeUp, cacheUp |-> env.cacheUp,
                    calls |-> o.calls, escaped |-> o.escaped,
                    invoked |-> o.invoked, success |-> o.success,
                    raised |-> o.raised]

\* A delivery as the only thing that happens.
Callback(m, env) == Handled(m, env) /\ UNCHANGED <<mqvars, rcvars>>

\* ChatCache.set_conversation(question, organization_id, doc_fingerprint, data)
\* with embedding = embedder.encode(question).
SetConversation(embedding, organization_id, doc_fingerprint, data) ==
    /\ cache' = SetConversationResult(embedding, organization_id,
                                      doc_fingerprint, data, cache)
    /\ last' = [op |-> "set",
                key |-> GenerateCacheKey(embedding, organization_id, doc_fingerprint)]
    /\ UNCHANGED <<points, outbox>>
    /\ UNCHANGED <<mqvars, rcvars>>

\* The consumer: deliveries of every kind of message, next to a chat surface
\* that caches answers depending on resources.
Deliver ==
    \E m \in Messages : \E env \in EnvsFor(m) :
        /\ Callback(m, env)
        /\ Cardinality(points') <= MaxPoints
        /\ Len(outbox') <= MaxOutbox

CacheAnswer ==
    /\ Cardinality(DOMAIN cache) < MaxCache
    /\ \E fp \in {"f1", "f2"} :
          SetConversation(<<10, 4>>, "o1", fp, Entry(TRUE, {}, {}, {"r1"}))

Next == Deliver \/ CacheAnswer

Spec == Init /\ [][Next]_vars

\* ------------------------------------------------ deletion of a resource
\* Results and delete events of resources whose points carry any
\* organization, next to cached answers that depend on the resources.
DeliverResult ==
    \E m \in OrgResultMsgs : \E env \in EnvsFor(m) :
        /\ Callback(m, env)
        /\ Cardinality(points') <= MaxStored

DeliverDelete == \E m \in DeleteMsgs : \E env \in EnvsFor(m) : Callback(m, env)

CacheDependent ==
    /\ Cardinality(DOMAIN cache) < MaxCached
    /\ \E d \in DependentEntries, fp \in {"f1", "f2"} :
          SetConversation(<<10, 4>>, "o1", fp, d)

NextDelete == DeliverResult \/ DeliverDelete \/ CacheDependent

SpecDelete == Init /\ [][NextDelete]_vars

\* ------------------------------------------- reconciliation of a result
Vec2 == <<2>>
Vec3 == <<3>>

\* The embeddings lists of a result: none, one to three vectors, and a list
\* whose first vector is empty.
EmbeddingLists == { << >>, <<Vec>>, <<Vec, Vec2>>, <<Vec, Vec2, Vec3>>,
                    <<<< >>, Vec2>> }

\* The chunk maps of a result, in wire order.  A key is the sequence of its
\* characters: a digit stands for itself, 97 and 98 for the letters a and b.
ChunkMaps ==
    { << >>,
      <<Chunk(<<0>>, "a")>>,
      <<Chunk(<<1>>, "b"), Chunk(<<0>>, "a")>>,
      <<Chunk(<<2>>, "c"), Chunk(<<0>>, "a"), Chunk(<<1>>, "b")>>,
      <<Chunk(<<1, 0>>, "b"), Chunk(<<9>>, "a")>>,
      <<Chunk(<<98>>, "b"), Chunk(<<97>>, "a")>>,
      <<Chunk(<<0>>, "a"), Chunk(<<97>>, "b")>>,
      <<<< <<0>>, [text |-> "", content |-> "a"] >>>> }

\* A result of resource r1 that passes validation.
Result(status, embeddings, chunks) ==
    Msg("dict", "embedding_response",
        {"id", "service_name"} \cup (IF status = NoVal THEN {} ELSE {"status"}),
        "r1", NoVal, NoVal, status, embeddings, chunks)

ReconcileMsgs ==
    { Result(NoVal, e, c) : e \in EmbeddingLists, c \in ChunkMaps }
    \cup { Result(st, <<Vec, Vec2>>, <<Chunk(<<1>>, "b"), Chunk(<<0>>, "a")>>) :
             st \in {"SUCCESS", "partial", "failed"} }
    \cup { Result("failed", << >>, << >>) }

DeliverEmbeddingResult ==
    \E m \in ReconcileMsgs : \E env \in EnvsFor(m) :
        /\ Callback(m, env)
        /\ Cardinality(points') <= MaxReconciled

SpecReconcile == Init /\ [][DeliverEmbeddingResult]_vars

\* ------------------------------------------------------ the semantic cache
\* Query embeddings (what embedder.encode returns): QA and QA2 are similar
\* but round to different fingerprints, QB is similar to neither.
QA  == <<10, 4>>
QA2 == <<10, 6>>
QB  == <<0, 10>>

Orgs == {"o1", "o2"}

\* Payloads handed to set_conversation: restricted to role admin and user u1,
\* org-wide, and open to nobody.
CacheData ==
    { Entry(FALSE, {"admin"}, {"u1"}, {"r1"}),
      Entry(TRUE, {}, {}, {"r1"}),
      Entry(FALSE, {}, {}, {"r1"}) }

\* Callers of get_conversation: <<user_id, user_roles>>.
Callers == { <<"u1", {}>>, <<"u2", {"admin"}>>, <<"u2", {"viewer"}>> }

\* The orders in which scan_iter can yield the keys of a store.
ScanOrders(store) ==
    LET keys == DOMAIN store
        n    == Cardinality(keys)
    IN  {o \in [1..n -> keys] : \A i, j \in 1..n : i # j => o[i] # o[j]}

\* ChatCache.get_conversation(question, organization_id, user_id, user_roles,
\* doc_fingerprint) with embedding = embedder.encode(question); the store is
\* only read.
GetConversation(embedding, organization_id, user_id, user_roles, doc_fingerprint, order) ==
    \E r \in {GetConversationResult(embedding, organization_id, user_id,
                                    user_roles, doc_fingerprint, order, cache)} :
        /\ last' = [op |-> "get", embedding |-> embedding,
                    organization_id |-> organization_id, user_id |-> user_id,
                    user_roles |-> user_roles,
                    doc_fingerprint |-> doc_fingerprint,
                    found |-> r.found, key |-> r.key, data |-> r.data]
        /\ UNCHANGED <<points, cache, outbox>>
        /\ UNCHANGED <<mqvars, rcvars>>

CacheSet ==
    /\ Cardinality(DOMAIN cache) < MaxEntries
    /\ \E e \in {QA, QA2}, org \in Orgs, d \in CacheData :
          SetConversation(e, org, "", d)

CacheGet ==
    \E e \in {QA, QB}, org \in Orgs, c \in Callers, order \in ScanOrders(cache) :
        GetConversation(e, org, c[1], c[2], "", order)

NextCache == CacheSet \/ CacheGet

SpecCache == Init /\ [][NextCache]_vars

\* ---------------------------------------------------- table_aware_splitter.py
\* A text is the sequence of its characters.  Offsets are Python's: the first
\* character is at offset 0 and text[a:b] holds the offsets a .. b-1.
Whitespace == {" ", "\n"}

\* text[a:b], for 0 <= a.
Slice(text, a, b) == SubSeq(text, a + 1, Min(b, Len(text)))

\* str.lstrip, str.rstrip and str.strip.
RECURSIVE LStrip(_)
LStrip(text) ==
    IF text # << >> /\ Head(text) \in Whitespace THEN LStrip(Tail(text)) ELSE text

RECURSIVE RStrip(_)
RStrip(text) ==
    IF text # << >> /\ text[Len(text)] \in Whitespace
    THEN RStrip(SubSeq(text, 1, Len(text) - 1)) ELSE text

Strip(text) == RStrip(LStrip(text))

\* The offsets at which sub occurs in text.
Occurrences(text, sub) ==
    {i \in 0..(Len(text) - Len(sub)) : SubSeq(text, i + 1, i + Len(sub)) = sub}

\* str.find: the least offset at which sub occurs, -1 when there is none.
Find(text, sub) ==
    IF Occurrences(text, sub) = {} THEN -1
    ELSE CHOOSE i \in Occurrences(text, sub) :
            \A j \in Occurrences(text, sub) : i <= j

\* count_tokens.  The reference tokenizer is an external collaborator: it is
\* taken to make one token of every character; without it (encoding "none")
\* the count is len(text) // 4.
CHARS_PER_TOKEN == 4

CountTokens(text, encoding) ==
    IF encoding = "none" THEN Len(text) \div CHARS_PER_TOKEN ELSE Len(text)

\* _split_at_token_limit: the text of the first max_tokens tokens.
SplitAtTokenLimit(text, max_tokens, encoding) ==
    IF encoding = "none" \/ text = << >>
    THEN Slice(text, 0, max_tokens * CHARS_PER_TOKEN)
    ELSE IF Len(text) <= max_tokens THEN text
    ELSE Slice(text, 0, max_tokens)

\* The offset of the first newline at or after p, len(text) when there is none.
RECURSIVE LineEnd(_, _)
LineEnd(text, p) ==
    IF p >= Len(text) \/ text[p + 1] = "\n" THEN Min(p, Len(text))
    ELSE LineEnd(text, p + 1)

\* The offset of the first character at or after p that is no whitespace.
RECURSIVE WhitespaceEnd(_, _)
WhitespaceEnd(text, p) ==
    IF p >= Len(text) \/ text[p + 1] \notin Whitespace THEN Min(p, Len(text))
    ELSE WhitespaceEnd(text, p + 1)

\* \|[^\n]*\|[\s]*\n at offset p: a line from a pipe to a pipe, closed by a
\* newline.
IsRowAt(text, p) ==
    /\ p < Len(text) /\ text[p + 1] = "|"
    /\ LineEnd(text, p) < Len(text)
    /\ LineEnd(text, p) - 1 > p
    /\ text[LineEnd(text, p)] = "|"

\* \|[\s\-\|:]+\|[\s]*\n at offset p: a row of pipes, dashes, colons, blanks.
IsSeparatorAt(text, p) ==
    /\ IsRowAt(text, p)
    /\ \A i \in (p + 1)..LineEnd(text, p) : text[i] \in {"|", "-", ":", " "}

\* The offset at which the row after the row at p starts: the whitespace that
\* follows the row ends in a newline and a pipe comes next; -1 otherwise.
NextRow(text, p) ==
    IF /\ WhitespaceEnd(text, LineEnd(text, p)) < Len(text)
       /\ text[WhitespaceEnd(text, LineEnd(text, p))] = "\n"
       /\ IsRowAt(text, WhitespaceEnd(text, LineEnd(text, p)))
    THEN WhitespaceEnd(text, LineEnd(text, p))
    ELSE -1

\* [\s]*\n after the last row, at offset p: up to the last newline of the
\* whitespace that follows the row.
RECURSIVE LastNewline(_, _)
LastNewline(text, e) == IF text[e] = "\n" THEN e ELSE LastNewline(text, e - 1)

RowsEnd(text, p) == LastNewline(text, WhitespaceEnd(text, LineEnd(text, p)))

\* (?:\|[^\n]*\|[\s]*\n)+ from the row at p, greedy: the end of the match.
RECURSIVE DataRowsEnd(_, _)
DataRowsEnd(text, p) ==
    IF NextRow(text, p) = -1 THEN RowsEnd(text, p)
    ELSE DataRowsEnd(text, NextRow(text, p))

\* The first table pattern at offset p (header row, separator row, one or
\* more rows): the end of the match, -1 when it does not match.
MarkdownTableEnd(text, p) ==
    IF /\ IsRowAt(text, p)
       /\ NextRow(text, p) # -1
       /\ IsSeparatorAt(text, NextRow(text, p))
       /\ NextRow(text, NextRow(text, p)) # -1
    THEN DataRowsEnd(text, NextRow(text, NextRow(text, p)))
    ELSE -1

\* The pattern (?:^\|.*\|.*$[\r\n]*)+ under DOTALL and MULTILINE at offset p:
\* from a pipe that opens a line, when another pipe follows anywhere, to the
\* end of the text.
PipeLinesEnd(text, p) ==
    IF /\ p < Len(text) /\ text[p + 1] = "|"
       /\ (p = 0 \/ text[p] = "\n")
       /\ \E i \in (p + 2)..Len(text) : text[i] = "|"
    THEN Len(text)
    ELSE -1

\* One match of the combined pattern at offset p, alternatives in order.  On
\* texts whose tables are a header row, a separator row and data rows, the
\* other alternatives match nowhere that these two do not match first.
RegionEnd(text, p) ==
    IF MarkdownTableEnd(text, p) # -1 THEN MarkdownTableEnd(text, p)
    ELSE PipeLinesEnd(text, p)

\* The offset of the first pipe at or after p, -1 when there is none: no
\* alternative matches at an offset that holds no pipe.
NextPipe(text, p) ==
    IF \A i \in (p + 1)..Len(text) : text[i] # "|" THEN -1
    ELSE (CHOOSE i \in (p + 1)..Len(text) :
            /\ text[i] = "|"
            /\ \A j \in (p + 1)..(i - 1) : text[j] # "|") - 1

\* _find_all_table_regions: re.finditer from offset p on, the regions as
\* <<start, end>> in order of position.
RECURSIVE FindAllTableRegionsFrom(_, _)
RECURSIVE RegionsAtPipe(_, _)
RegionsAtPipe(text, q) ==
    IF q = -1 THEN << >>
    ELSE IF RegionEnd(text, q) = -1 THEN FindAllTableRegionsFrom(text, q + 1)
    ELSE <<<<q, RegionEnd(text, q)>>>>
         \o FindAllTableRegionsFrom(text, RegionEnd(text, q))

FindAllTableRegionsFrom(text, p) == RegionsAtPipe(text, NextPipe(text, p))

FindAllTableRegions(text) == FindAllTableRegionsFrom(text, 0)

\* _extract_context_window: context_window_tokens * 4 characters on each side
\* of the table, cut at the ends of the text.  cfg is the splitter:
\* [max_tokens, context_window_tokens, encoding].
ContextStart(table_start, cfg) ==
    IF table_start - cfg.context_window_tokens * CHARS_PER_TOKEN < 0 THEN 0
    ELSE table_start - cfg.context_window_tokens * CHARS_PER_TOKEN

ContextEnd(text, table_end, cfg) ==
    Min(Len(text), table_end + cfg.context_window_tokens * CHARS_PER_TOKEN)

\* The separators of _character_based_split, in order of preference.
Separators ==
    << <<"\n", "\n", "#", "#", " ">>, <<"\n", "\n", "#", "#", "#", " ">>,
       <<"\n", "\n">>, <<".", " ">>, <<" ">> >>

\* parts[0] + separator of remaining_text.split(separator, 1).
PotentialChunk(remaining, separator) ==
    Slice(remaining, 0, Find(remaining, separator) + Len(separator))

\* The separator occurs, the chunk up to it fits, and it is the first chunk or
\* fills at least 80% of max_tokens.
SeparatorTaken(remaining, separator, nchunks, cfg) ==
    /\ Find(remaining, separator) # -1
    /\ CountTokens(PotentialChunk(remaining, separator), cfg.encoding) <= cfg.max_tokens
    /\ \/ nchunks = 0
       \/ 10 * CountTokens(PotentialChunk(remaining, separator), cfg.encoding)
             >= 8 * cfg.max_tokens

\* The for loop over the separators from the i-th on: the chunk of the first
\* separator taken, else the whole remaining text.
RECURSIVE FirstSeparatorChunk(_, _, _, _)
FirstSeparatorChunk(remaining, i, nchunks, cfg) ==
    IF i > Len(Separators) THEN remaining
    ELSE IF SeparatorTaken(remaining, Separators[i], nchunks, cfg)
         THEN PotentialChunk(remaining, Separators[i])
         ELSE FirstSeparatorChunk(remaining, i + 1, nchunks, cfg)

\* A chunk over the limit is replaced by a cut at the token limit.
ForceLimit(best_chunk, remaining, cfg) ==
    IF CountTokens(best_chunk, cfg.encoding) > cfg.max_tokens
    THEN SplitAtTokenLimit(remaining, cfg.max_tokens, cfg.encoding)
    ELSE best_chunk

BestChunk(remaining, nchunks, cfg) ==
    ForceLimit(FirstSeparatorChunk(remaining, 1, nchunks, cfg), remaining, cfg)

\* The chunk-count ceiling of _character_based_split.
MAX_CHUNK_ID == 1000

\* chunks.extend(s) for a str s: one element per character.
Characters(text) == [i \in 1..Len(text) |-> <<text[i]>>]

\* remaining_text[len(best_chunk) + 1:].strip(): one character too far.
RestAfterSkipping(remaining, best_chunk) ==
    Strip(Slice(remaining, Len(best_chunk) + 1, Len(remaining)))

\* remaining_text[len(best_chunk):].strip()
RestAfter(remaining, best_chunk) ==
    Strip(Slice(remaining, Len(best_chunk), Len(remaining)))

\* The end of one turn of the while loop of _character_based_split: the chunk
\* is appended stripped and cut off the remaining text; the safety check and
\* the ceiling on chunk_id end the loop.  st is the loop's state:
\* [remaining, chunks, chunk_id, running].
TurnEnd(text, st, best_chunk, rest, cfg) ==
    IF Len(rest) >= Len(text)
    THEN [remaining |-> rest,
          chunks |-> Append(st.chunks, Strip(best_chunk))
                     \o Characters(SplitAtTokenLimit(rest, cfg.max_tokens, cfg.encoding)),
          chunk_id |-> st.chunk_id,
          running |-> FALSE]
    ELSE [remaining |-> rest,
          chunks |-> Append(st.chunks, Strip(best_chunk)),
          chunk_id |-> st.chunk_id + 1,
          running |-> ~(st.chunk_id + 1 > MAX_CHUNK_ID)]

TurnBody(text, st, best_chunk, cfg) ==
    TurnEnd(text, st, best_chunk, RestAfter(st.remaining, best_chunk), cfg)

\* One turn of the while loop, its condition included.
WhileTurn(text, st, cfg) ==
    IF Strip(st.remaining) = << >> THEN [st EXCEPT !.running = FALSE]
    ELSE TurnBody(text, st, BestChunk(st.remaining, Len(st.chunks), cfg), cfg)

\* The loop's state on entry.
LoopStart(text) ==
    [remaining |-> text, chunks |-> << >>, chunk_id |-> 0, running |-> TRUE]

RECURSIVE CharacterSplitLoop(_, _, _)
CharacterSplitLoop(text, st, cfg) ==
    IF ~st.running THEN st.chunks
    ELSE CharacterSplitLoop(text, WhileTurn(text, st, cfg), cfg)

\* [chunk for chunk in chunks if chunk.strip()]
NonBlank(chunks) == SelectSeq(chunks, LAMBDA c : Strip(c) # << >>)

\* _character_based_split.
CharacterBasedSplit(text, cfg) ==
    IF Strip(text) = << >> THEN << >>
    ELSE NonBlank(CharacterSplitLoop(text, LoopStart(text), cfg))

\* The pre-table text of _split_context_with_table_intact: one chunk if it
\* fits, split by characters if not, nothing if blank.
PreTableChunks(pre_table_chunk, cfg) ==
    IF pre_table_chunk = << >> THEN << >>
    ELSE IF CountTokens(pre_table_chunk, cfg.encoding) <= cfg.max_tokens
         THEN <<pre_table_chunk>>
         ELSE CharacterBasedSplit(pre_table_chunk, cfg)

\* min(len(remaining_after_table), int(len(remaining_after_table) * 0.3))
PostContextEnd(remaining_after_table) ==
    Min(Len(remaining_after_table), (3 * Len(remaining_after_table)) \div 10)

\* The while loop of _split_context_with_table_intact.  table is
\* context_text[table_rel_start:table_rel_end].
RECURSIVE ContextLoop(_, _, _, _)
RECURSIVE ContextTableTurn(_, _, _, _, _)
RECURSIVE ContextAfterTable(_, _, _, _)

\* The table does not fit with its minimal context: the table and 30% of what
\* follows it form a chunk when something follows it; when nothing follows it
\* the remainder is emptied and no table chunk is appended.
ContextAfterTable(table, remaining_after_table, chunks, cfg) ==
    IF remaining_after_table = << >> THEN chunks
    ELSE IF table \o Slice(remaining_after_table, 0, PostContextEnd(remaining_after_table)) = << >>
         THEN ContextLoop(table, remaining_after_table, chunks, cfg)
         ELSE ContextLoop(table,
                          Slice(remaining_after_table, PostContextEnd(remaining_after_table), Len(remaining_after_table)),
                          Append(chunks, table \o Slice(remaining_after_table, 0, PostContextEnd(remaining_after_table))),
                          cfg)

\* The table is in the remainder, ending at potential_end - max_tokens // 2.
ContextTableTurn(table, remainder, table_start_in_chunk, chunks, cfg) ==
    IF CountTokens(Slice(remainder, 0, Min(Len(remainder), table_start_in_chunk + Len(table) + (cfg.max_tokens \div 2))), cfg.encoding) <= cfg.max_tokens
    THEN ContextLoop(table,
                     Slice(remainder, Min(Len(remainder), table_start_in_chunk + Len(table) + (cfg.max_tokens \div 2)), Len(remainder)),
                     Append(chunks, Slice(remainder, 0, Min(Len(remainder), table_start_in_chunk + Len(table) + (cfg.max_tokens \div 2)))),
                     cfg)
    ELSE ContextAfterTable(table,
                           Slice(remainder, table_start_in_chunk + Len(table), Len(remainder)),
                           chunks \o PreTableChunks(Strip(Slice(remainder, 0, table_start_in_chunk)), cfg),
                           cfg)

ContextLoop(table, remainder, chunks, cfg) ==
    IF remainder = << >> THEN chunks
    ELSE IF Find(remainder, table) = -1
         THEN IF CountTokens(remainder, cfg.encoding) <= cfg.max_tokens
              THEN Append(chunks, remainder)
              ELSE ContextLoop(table,
                               Slice(remainder, Len(SplitAtTokenLimit(remainder, cfg.max_tokens, cfg.encoding)), Len(remainder)),
                               Append(chunks, SplitAtTokenLimit(remainder, cfg.max_tokens, cfg.encoding)),
                               cfg)
         ELSE ContextTableTurn(table, remainder, Find(remainder, table), chunks, cfg)

\* _split_context_with_table_intact.
SplitContextWithTableIntact(context_text, table_rel_start, table_rel_end, cfg) ==
    NonBlank(ContextLoop(Slice(context_text, table_rel_start, table_rel_end), context_text, << >>, cfg))

\* The text between the last processed position and a context window.
PreContextChunks(text, processed_pos, context_start, cfg) ==
    IF context_start > processed_pos
    THEN CharacterBasedSplit(Strip(Slice(text, processed_pos, context_start)), cfg)
    ELSE << >>

\* ContextChunks without the test of lines 155-160: the window is always split
\* around the table.
ContextChunksAlwaysSplit(full_context, table_rel_start, table_rel_end, cfg) ==
    SplitContextWithTableIntact(full_context, table_rel_start, table_rel_end, cfg)

\* A table with its context window: one chunk if the window fits, else the
\* window split with the table kept intact.
ContextChunks(full_context, table_rel_start, table_rel_end, cfg) ==
    IF CountTokens(full_context, cfg.encoding) <= cfg.max_tokens
    THEN <<full_context>>
    ELSE SplitContextWithTableIntact(full_context, table_rel_start, table_rel_end, cfg)

TableChunks(text, table_start, table_end, context_start, context_end, cfg) ==
    ContextChunks(Slice(text, context_start, context_end),
                  table_start - context_start, table_end - context_start, cfg)

\* The for loop of _split_text_around_tables over the table regions from the
\* i-th on, then the text after the last context window.
RECURSIVE TablesLoop(_, _, _, _, _, _)
TablesLoop(text, all_tables, i, processed_pos, chunks, cfg) ==
    IF i > Len(all_tables)
    THEN IF processed_pos < Len(text)
         THEN chunks \o CharacterBasedSplit(Strip(Slice(text, processed_pos, Len(text))), cfg)
         ELSE chunks
    ELSE TablesLoop(text, all_tables, i + 1,
                    ContextEnd(text, all_tables[i][2], cfg),
                    chunks
                      \o PreContextChunks(text, processed_pos, ContextStart(all_tables[i][1], cfg), cfg)
                      \o TableChunks(text, all_tables[i][1], all_tables[i][2],
                                     ContextStart(all_tables[i][1], cfg),
                                     ContextEnd(text, all_tables[i][2], cfg), cfg),
                    cfg)

SplitAround(text, all_tables, cfg) ==
    IF all_tables = << >> THEN CharacterBasedSplit(text, cfg)
    ELSE TablesLoop(text, all_tables, 1, 0, << >>, cfg)

\* _split_text_around_tables.
SplitTextAroundTables(text, cfg) == SplitAround(text, FindAllTableRegions(text), cfg)

\* split_text: nothing in _split_text_around_tables raises on a str, so the
\* except branch falling back to _character_based_split is never taken.
SplitText(text, cfg) == SplitTextAroundTables(text, cfg)

\* ------------------------------------------------------- the splitter's inputs
\* Texts are sequences of one-character strings.
Words == {<<"a", "b", " ">>, <<"c", ".", " ">>, <<"d", "\n", "\n">>}

\* The texts of at most n words.
RECURSIVE Proses(_)
Proses(n) ==
    IF n = 0 THEN {<< >>}
    ELSE Proses(n - 1) \cup {p \o w : p \in Proses(n - 1), w \in Words}

\* A table opens a line: prose before it ends in a newline.
BeforeTable(pre) == IF pre = << >> THEN pre ELSE Append(pre, "\n")

\* Header row, separator row, one data row.
SmallTable == <<"|", "h", "|", "\n", "|", "-", "|", "\n", "|", "d", "|", "\n">>

\* "| A | B |\n|---|---|\n| 1 | 2 |"
DocumentedTable ==
    <<"|", " ", "A", " ", "|", " ", "B", " ", "|", "\n",
      "|", "-", "-", "-", "|", "-", "-", "-", "|", "\n",
      "|", " ", "1", " ", "|", " ", "2", " ", "|">>

PlainTexts == {pre \o post : pre \in Proses(MaxWords - 1), post \in Proses(MaxWords)}

TableTexts ==
    {BeforeTable(pre) \o SmallTable \o post :
        pre \in Proses(MaxWords - 1), post \in Proses(MaxWords)}
    \cup {BeforeTable(pre) \o DocumentedTable : pre \in Proses(MaxWords - 1)}

Texts == PlainTexts \cup TableTexts

Encodings == {"cl100k_base", "none"}

Splitters ==
    [max_tokens : 1..MaxTokens, context_window_tokens : 0..MaxWindow,
     encoding : Encodings]

\* A splitter and the text it is about to be called on.
InitSplit ==
    /\ points = {}
    /\ cache = << >>
    /\ outbox = << >>
    /\ last \in [op : {"input"}, text : Texts, cfg : Splitters]
    /\ broker = "up"
    /\ producer = NoVal
    /\ consumer = NoVal
    /\ manager = NoVal
    /\ NoReconciliation

\* split_text(text) on the splitter cfg: the call and what it returned.
Split ==
    /\ last.op = "input"
    /\ last' = [op |-> "split", text |-> last.text, cfg |-> last.cfg,
                tables |-> FindAllTableRegions(last.text),
                chunks |-> SplitText(last.text, last.cfg)]
    /\ UNCHANGED <<points, cache, outbox>>
    /\ UNCHANGED <<mqvars, rcvars>>

SpecSplit == InitSplit /\ [][Split]_vars

\* ------------------------------------------- split_text on table-free text
\* A text of MaxRun characters with no separator in it.
LongRun == [i \in 1..MaxRun |-> "a"]

\* The context window plays no part without a table.
PlainSplitters == {s \in Splitters : s.context_window_tokens = 0}

PlainInputs ==
    [op : {"input"}, text : PlainTexts, cfg : PlainSplitters]
    \cup [op : {"input"}, text : {LongRun}, cfg : {s \in PlainSplitters : s.max_tokens = 1}]

InitPlain ==
    /\ points = {}
    /\ cache = << >>
    /\ outbox = << >>
    /\ last \in PlainInputs
    /\ broker = "up"
    /\ producer = NoVal
    /\ consumer = NoVal
    /\ manager = NoVal
    /\ NoReconciliation

\* What split_text returns once the loop of _character_based_split has ended
\* in the state st.
Returned(st) ==
    [op |-> "split", text |-> last.text, cfg |-> last.cfg, tables |-> << >>,
     chunk_id |-> st.chunk_id, chunks |-> NonBlank(st.chunks)]

\* split_text(text) finds no table and enters _character_based_split: blank
\* text returns at once, other text enters the while loop.
EnterCharacterSplit ==
    /\ last.op = "input"
    /\ FindAllTableRegions(last.text) = << >>
    /\ last' = IF Strip(last.text) = << >>
               THEN [op |-> "split", text |-> last.text, cfg |-> last.cfg,
                     tables |-> << >>, chunk_id |-> 0, chunks |-> << >>]
               ELSE [op |-> "splitting", text |-> last.text, cfg |-> last.cfg,
                     st |-> LoopStart(last.text)]
    /\ UNCHANGED <<points, cache, outbox>>
    /\ UNCHANGED <<mqvars, rcvars>>

\* One turn of the while loop; the turn that ends the loop returns.
CharacterSplitTurn ==
    /\ last.op = "splitting"
    /\ \E st \in {WhileTurn(last.text, last.st, last.cfg)} :
          last' = IF st.running THEN [last EXCEPT !.st = st] ELSE Returned(st)
    /\ UNCHANGED <<points, cache, outbox>>
    /\ UNCHANGED <<mqvars, rcvars>>

NextPlain == EnterCharacterSplit \/ CharacterSplitTurn

SpecPlain == InitPlain /\ [][NextPlain]_vars

\* ------------------------------------------- chat_cache.py on a failing store
\* What the store does during one get_conversation: getOk is FALSE when
\* redis.get of the exact key raises, scanOk is FALSE when scan_iter or a
\* redis.get inside the scan raises, unparsable holds the keys whose stored
\* value json.loads rejects.
StoreFaults(store) ==
    [getOk : BOOLEAN, scanOk : BOOLEAN, unparsable : SUBSET DOMAIN store]

\* An exception that leaves get_conversation.
GetRaised == [found |-> FALSE, key |-> NoVal, data |-> NoVal, raised |-> TRUE]

\* The value get_conversation returns.
GetReturned(r) == [found |-> r.found, key |-> r.key, data |-> r.data, raised |-> FALSE]

\* ChatCache.get_conversation on a store with faults f.  The exact-key get
\* and its json.loads, scan_iter and the gets of the scan stand outside any
\* try block; only the parsing of a scanned value is inside try/except, which
\* skips the entry.
GetConversationOnStore(embedding, organization_id, user_id, user_roles, doc_fingerprint, order, store, f) ==
    IF ~f.getOk THEN GetRaised
    ELSE IF GenerateCacheKey(embedding, organization_id, doc_fingerprint) \in DOMAIN store
            /\ GenerateCacheKey(embedding, organization_id, doc_fingerprint) \in f.unparsable
    THEN GetRaised
    ELSE IF GenerateCacheKey(embedding, organization_id, doc_fingerprint) \in DOMAIN store
            /\ CheckAccess(user_id, user_roles,
                           store[GenerateCacheKey(embedding, organization_id, doc_fingerprint)])
    THEN GetReturned(GetConversationResult(embedding, organization_id, user_id,
                                           user_roles, doc_fingerprint, order, store))
    ELSE IF ~f.scanOk THEN GetRaised
    ELSE GetReturned(SoftMatch(SelectSeq(order, LAMBDA k : k \notin f.unparsable),
                               store, embedding, user_id, user_roles))

\* A get while the store may fail.  A get leaves the store as it was, so a
\* get that follows a get reaches no state that the first one does not.
GetOnFailingStore ==
    /\ last.op # "get"
    /\ \E e \in {QA, QB}, org \in Orgs, c \in Callers, order \in ScanOrders(cache) :
      \E f \in StoreFaults(cache) :
        \E r \in {GetConversationOnStore(e, org, c[1], c[2], "", order, cache, f)} :
          /\ last' = [op |-> "get", embedding |-> e, organization_id |-> org,
                      user_id |-> c[1], user_roles |-> c[2], doc_fingerprint |-> "",
                      found |-> r.found, key |-> r.key, data |-> r.data,
                      raised |-> r.raised, faults |-> f]
          /\ UNCHANGED <<points, cache, outbox>>
          /\ UNCHANGED <<mqvars, rcvars>>

NextCacheFaults == CacheSet \/ GetOnFailingStore

SpecCacheFaults == Init /\ [][NextCacheFaults]_vars

\* ------------------------------------- chat_cache.py: invalidation by resource
\* Payloads handed to set_conversation: answers that depend on r1, on r2, on
\* both and on no resource.
ResourceData == DependentEntries \cup {Entry(TRUE, {}, {}, {})}

ResourceIds == {"r1", "r2"}

\* ChatCache.invalidate_cache_by_resource_id(resource_id).  last keeps the
\* store the call found, the keys it deleted, whether the call before it was
\* an invalidation of the same resource, and what that call deleted.
Invalidate(resource_id) ==
    /\ cache' = InvalidateCacheByResourceId(resource_id, cache)
    /\ last' = [op |-> "invalidate", resource_id |-> resource_id,
                before |-> cache,
                deleted |-> DOMAIN cache \ DOMAIN cache',
                repeat |-> (last.op = "invalidate" /\ last.resource_id = resource_id),
                prior |-> IF last.op = "invalidate" /\ last.resource_id = resource_id
                          THEN last.deleted ELSE {}]
    /\ UNCHANGED <<points, outbox>>
    /\ UNCHANGED <<mqvars, rcvars>>

SetDependent ==
    /\ Cardinality(DOMAIN cache) < MaxEntries
    /\ \E e \in {QA, QA2, QB}, org \in Orgs, d \in ResourceData :
          SetConversation(e, org, "", d)

InvalidateResource == \E resource_id \in ResourceIds : Invalidate(resource_id)

NextInvalidate == SetDependent \/ InvalidateResource

SpecInvalidate == Init /\ [][NextInvalidate]_vars

\* ---------------------------------------------------------------- rabbitmq.py
\* A pika connection or channel is "none" (None), "open", "broken" (the broker
\* went away: is_closed still reads False, every call on it raises) or
\* "closed" (is_closed reads True).
NotClosed(c) == c \in {"open", "broken"}

\* The object after the broker went away.
Broken(c) == IF c = "open" THEN "broken" ELSE c

\* The object once pika has noticed the loss.
Noticed(c) == IF c = "broken" THEN "closed" ELSE c

\* A RabbitMQConnection; up says whether pika.BlockingConnection(parameters)
\* succeeds.
NewConnection == [connection |-> NoVal, is_initialized |-> FALSE]

\* An initialize without its first test: it connects on every call.
ConnectsAlways(cm) == TRUE

\* The first test of initialize: it goes on to pika.BlockingConnection unless
\* the manager is initialized and holds a connection that does not read closed.
Connects(cm) == ~(cm.is_initialized /\ NotClosed(cm.connection))

\* RabbitMQConnection.initialize: nothing on a live connection; else connect,
\* and on any exception clear the state without raising.
Initialize(cm, up) ==
    IF ~Connects(cm) THEN cm
    ELSE IF up THEN [connection |-> "open", is_initialized |-> TRUE]
    ELSE NewConnection

\* A get_connection that hands out what it holds and never reinitializes.
GetConnectionNoReinit(cm, up) == cm

\* RabbitMQConnection.get_connection: the manager after the call; its
\* connection field is the value returned.
GetConnection(cm, up) ==
    IF ~cm.is_initialized \/ ~NotClosed(cm.connection) THEN Initialize(cm, up)
    ELSE cm

\* A close without its finally block: a close() that raises (on a connection
\* whose broker is gone) leaves the state as it was.
CloseNoFinally(cm) == IF cm.connection = "open" THEN NewConnection ELSE cm

\* RabbitMQConnection.close: a connection that is not closed is closed (a
\* failure of close is swallowed) and the state reset; anything else is left
\* as it is.
Close(cm) == IF NotClosed(cm.connection) THEN NewConnection ELSE cm

\* --------------------------------------------------------------- producers.py
\* RabbitMQProducer.__init__: a manager initialized once, no channel.
NewProducer(up) == [channel |-> NoVal, cm |-> Initialize(NewConnection, up)]

\* The try block of get_channel on the manager cm that get_connection left:
\* no connection returns None; connection.channel() and exchange_declare
\* raise on a broken connection or when the broker refuses (declareOk is
\* FALSE), and the except clause clears the channel and returns None.
OpenChannel(p, cm, declareOk) ==
    IF cm.connection = NoVal
    THEN [producer |-> [p EXCEPT !.cm = cm], channel |-> NoVal, opened |-> FALSE]
    ELSE IF cm.connection = "broken" \/ ~declareOk
    THEN [producer |-> [channel |-> NoVal, cm |-> cm], channel |-> NoVal, opened |-> FALSE]
    ELSE [producer |-> [channel |-> "open", cm |-> cm], channel |-> "open", opened |-> TRUE]

\* RabbitMQProducer.get_channel: the cached channel while it is not closed,
\* else a new one; channel is the value returned, opened whether it is new.
GetChannel(p, up, declareOk) ==
    IF NotClosed(p.channel) THEN [producer |-> p, channel |-> p.channel, opened |-> FALSE]
    ELSE OpenChannel(p, GetConnection(p.cm, up), declareOk)

\* publish_message without its try/except: the exception leaves the call.
PublishFailedUnguarded(p, out, up, opened, published) ==
    [producer |-> p, out |-> out, raised |-> TRUE, attempts |-> 1,
     failed |-> ~published, published |-> published, opened |-> opened]

\* The except clause of publish_message: the channel is dropped, the
\* connection closed and initialized again; nothing is re-raised and the
\* message is not sent again.
PublishFailed(p, out, up, opened, published) ==
    [producer |-> [channel |-> NoVal, cm |-> Initialize(Close(p.cm), up)],
     out |-> out, raised |-> FALSE, attempts |-> 1, failed |-> ~published,
     published |-> published, opened |-> opened]

\* The try block of publish_message on the channel g that get_channel
\* returned: basic_publish (json.dumps included) raises on a broken channel
\* or when f.publishOk is FALSE; _summarize_message raises after the publish
\* when f.summaryOk is FALSE.
PublishOn(g, out, message, up, f) ==
    IF g.channel = "broken" \/ ~f.publishOk THEN PublishFailed(g.producer, out, up, g.opened, FALSE)
    ELSE IF ~f.summaryOk
    THEN PublishFailed(g.producer, Append(out, message), up, g.opened, TRUE)
    ELSE [producer |-> g.producer, out |-> Append(out, message), raised |-> FALSE,
          attempts |-> 1, failed |-> FALSE, published |-> TRUE, opened |-> g.opened]

\* RabbitMQProducer.publish_message after get_channel returned g.
PublishWith(g, out, message, up, f) ==
    IF g.channel = NoVal
    THEN [producer |-> g.producer, out |-> out, raised |-> FALSE, attempts |-> 0,
          failed |-> FALSE, published |-> FALSE, opened |-> FALSE]
    ELSE PublishOn(g, out, message, up, f)

\* RabbitMQProducer.publish_message(message, routing_key).
PublishMessage(p, out, message, up, f) ==
    PublishWith(GetChannel(p, up, f.declareOk), out, message, up, f)

\* What can go wrong in one call besides the broker being down.
Faults == [declareOk : BOOLEAN, publishOk : BOOLEAN, summaryOk : BOOLEAN]

\* A producer is constructed while the broker is up or down.
InitProducer ==
    /\ points = {}
    /\ cache = << >>
    /\ outbox = << >>
    /\ last = [op |-> "init"]
    /\ broker \in {"up", "down"}
    /\ producer = NewProducer(broker = "up")
    /\ consumer = NoVal
    /\ manager = NoVal
    /\ NoReconciliation

Publish ==
    \E message \in {"m1", "m2"}, f \in Faults :
      \E r \in {PublishMessage(producer, outbox, message, broker = "up", f)} :
        /\ Len(r.out) <= MaxPublished
        /\ producer' = r.producer
        /\ outbox' = r.out
        /\ last' = [op |-> "publish", message |-> message, raised |-> r.raised,
                    attempts |-> r.attempts, failed |-> r.failed,
                    published |-> r.published, opened |-> r.opened,
                    after_failure |-> (last.op = "publish" /\ last.failed)]
        /\ UNCHANGED <<points, cache, broker, consumer, manager, rcvars>>

\* The broker goes away: what the producer holds is broken, and reads as
\* not closed until pika notices.
ProducerBrokerDown ==
    /\ broker = "up"
    /\ broker' = "down"
    /\ producer' = [channel |-> Broken(producer.channel),
                    cm |-> [producer.cm EXCEPT !.connection = Broken(@)]]
    /\ UNCHANGED <<points, cache, outbox, last, consumer, manager, rcvars>>

\* The broker comes back; connections made before stay as they are.
BrokerUp ==
    /\ broker = "down"
    /\ broker' = "up"
    /\ UNCHANGED <<points, cache, outbox, last, producer, consumer, manager, rcvars>>

\* pika notices the lost connection: the connection and its channel read
\* is_closed = True.
ProducerConnectionLost ==
    /\ producer.cm.connection = "broken"
    /\ producer' = [channel |-> Noticed(producer.channel),
                    cm |-> [producer.cm EXCEPT !.connection = "closed"]]
    /\ UNCHANGED <<points, cache, outbox, last, broker, consumer, manager, rcvars>>

\* The broker closes the channel alone.
ProducerChannelClosed ==
    /\ producer.channel = "open"
    /\ producer' = [producer EXCEPT !.channel = "closed"]
    /\ UNCHANGED <<points, cache, outbox, last, broker, consumer, manager, rcvars>>

NextProducer ==
    \/ Publish \/ ProducerBrokerDown \/ BrokerUp
    \/ ProducerConnectionLost \/ ProducerChannelClosed

SpecProducer == InitProducer /\ [][NextProducer]_vars

\* --------------------------------------------------------------- consumers.py
\* One consumer thread in consume_queue: running is self.running, channel is
\* self.channels[queue_name] ("none" when absent), cm the thread's connection
\* manager, attempts the turns of the retry loop so far (counted up to
\* MaxAttempts), pc the thread's position:
\*   "loop"       at the while test
\*   "entered"    the while test passed, initialize() not yet called
\*   "connected"  get_connection returned a connection
\*   "consuming"  inside channel.start_consuming()
\*   "sleep"      in time.sleep(5) after a failure
\*   "pause"      in time.sleep(1) after start_consuming returned
\*   "exited"     consume_queue has returned or raised
NewConsumer ==
    [running |-> TRUE, pc |-> "loop", cm |-> NewConnection, channel |-> NoVal,
     attempts |-> 0]

\* The except clause of the retry loop left out: the exception ends the thread.
ConsumeFailedUnguarded(c) == [c EXCEPT !.pc = "exited"]

\* The except clause of the retry loop: the channel is dropped, the connection
\* closed, and the thread sleeps before the next turn.
ConsumeFailed(c) == [c EXCEPT !.channel = NoVal, !.cm = Close(@), !.pc = "sleep"]

\* The turn's first half once get_connection returned on the manager cm: no
\* connection logs, sleeps and continues.
Connected(c, cm) ==
    [c EXCEPT !.cm = cm,
              !.pc = IF cm.connection = NoVal THEN "sleep" ELSE "connected",
              !.attempts = Min(@ + 1, MaxAttempts)]

InitConsume ==
    /\ points = {}
    /\ cache = << >>
    /\ outbox = << >>
    /\ last = [op |-> "init"]
    /\ broker \in {"up", "down"}
    /\ producer = NoVal
    /\ consumer = NewConsumer
    /\ manager = NoVal
    /\ NoReconciliation

\* The while test: self.running is read once per turn, here and nowhere else
\* in the loop.
ConsumeWhile ==
    /\ consumer.pc = "loop"
    /\ consumer' = [consumer EXCEPT !.pc = IF consumer.running THEN "entered"
                                           ELSE "exited"]
    /\ last' = [op |-> "consume", step |-> "while"]
    /\ UNCHANGED <<points, cache, outbox, broker, producer, manager, rcvars>>

\* initialize() and get_connection() on the thread's own manager.
ConsumeConnect ==
    /\ consumer.pc = "entered"
    /\ consumer' = Connected(consumer,
                             GetConnection(Initialize(consumer.cm, broker = "up"),
                                           broker = "up"))
    /\ last' = [op |-> "consume", step |-> "connect"]
    /\ UNCHANGED <<points, cache, outbox, broker, producer, manager, rcvars>>

\* channel(), the declarations, basic_qos and basic_consume: on a broken
\* connection they raise.
ConsumeSetup ==
    /\ consumer.pc = "connected"
    /\ consumer' = IF consumer.cm.connection = "open"
                   THEN [consumer EXCEPT !.channel = "open", !.pc = "consuming"]
                   ELSE ConsumeFailed(consumer)
    /\ last' = [op |-> "consume", step |-> "setup"]
    /\ UNCHANGED <<points, cache, outbox, broker, producer, manager, rcvars>>

\* start_consuming raises: the connection or the channel is gone.
ConsumingRaises ==
    /\ consumer.pc = "consuming"
    /\ consumer.cm.connection # "open" \/ consumer.channel # "open"
    /\ consumer' = ConsumeFailed(consumer)
    /\ last' = [op |-> "consume", step |-> "raised"]
    /\ UNCHANGED <<points, cache, outbox, broker, producer, manager, rcvars>>

\* start_consuming returns after stop() called stop_consuming on the channel
\* it found in self.channels.
ConsumingReturns ==
    /\ consumer.pc = "consuming"
    /\ ~consumer.running
    /\ consumer.channel = NoVal
    /\ consumer' = [consumer EXCEPT !.pc = "pause"]
    /\ last' = [op |-> "consume", step |-> "returned"]
    /\ UNCHANGED <<points, cache, outbox, broker, producer, manager, rcvars>>

\* time.sleep is over.
Wake ==
    /\ consumer.pc \in {"sleep", "pause"}
    /\ consumer' = [consumer EXCEPT !.pc = "loop"]
    /\ last' = [op |-> "consume", step |-> "wake"]
    /\ UNCHANGED <<points, cache, outbox, broker, producer, manager, rcvars>>

\* RabbitMQConsumer.stop() on another thread: the channel is stopped, closed
\* and forgotten, the connection closed.
Stop ==
    /\ consumer.running
    /\ consumer' = [consumer EXCEPT !.running = FALSE, !.channel = NoVal,
                                    !.cm = Close(@)]
    /\ last' = [op |-> "stop"]
    /\ UNCHANGED <<points, cache, outbox, broker, producer, manager, rcvars>>

ConsumerBrokerDown ==
    /\ broker = "up"
    /\ broker' = "down"
    /\ consumer' = [consumer EXCEPT !.channel = Broken(@),
                                    !.cm.connection = Broken(@)]
    /\ UNCHANGED <<points, cache, outbox, last, producer, manager, rcvars>>

ConsumerConnectionLost ==
    /\ consumer.cm.connection = "broken"
    /\ consumer' = [consumer EXCEPT !.channel = Noticed(@),
                                    !.cm.connection = "closed"]
    /\ UNCHANGED <<points, cache, outbox, last, broker, producer, manager, rcvars>>

\* The steps of the consumer thread itself.
ConsumerStep ==
    \/ ConsumeWhile \/ ConsumeConnect \/ ConsumeSetup
    \/ ConsumingRaises \/ ConsumingReturns \/ Wake

NextConsume ==
    \/ ConsumerStep \/ Stop
    \/ ConsumerBrokerDown \/ BrokerUp \/ ConsumerConnectionLost

SpecConsume == InitConsume /\ [][NextConsume]_vars

\* The thread keeps running: it is a thread of its own, its sleeps end, and
\* start_consuming raises once the connection under it is gone.
SpecConsumeFair == SpecConsume /\ WF_vars(ConsumerStep)

\* ------------------------------------------- rabbitmq.py: a manager on its own
\* A RabbitMQConnection after __init__.  last.opened counts the connections
\* pika.BlockingConnection has returned to this manager.
InitManager ==
    /\ points = {}
    /\ cache = << >>
    /\ outbox = << >>
    /\ last = [op |-> "new", opened |-> 0]
    /\ broker \in {"up", "down"}
    /\ producer = NoVal
    /\ consumer = NoVal
    /\ manager = NewConnection
    /\ NoReconciliation

\* manager.initialize().
ManagerInitialize ==
    /\ last.opened < MaxOpened
    /\ manager' = Initialize(manager, broker = "up")
    /\ last' = [op |-> "initialize", before |-> manager, up |-> (broker = "up"),
                returned |-> NoVal,
                opened |-> last.opened
                           + (IF Connects(manager) /\ broker = "up" THEN 1 ELSE 0)]
    /\ UNCHANGED <<points, cache, outbox, broker, producer, consumer, rcvars>>

\* manager.get_connection(): returned is the value the call returns.
ManagerGetConnection ==
    /\ last.opened < MaxOpened
    /\ manager' = GetConnection(manager, broker = "up")
    /\ last' = [op |-> "get_connection", before |-> manager, up |-> (broker = "up"),
                returned |-> manager'.connection,
                opened |-> last.opened
                           + (IF /\ ~manager.is_initialized \/ ~NotClosed(manager.connection)
                                 /\ Connects(manager)
                                 /\ broker = "up"
                              THEN 1 ELSE 0)]
    /\ UNCHANGED <<points, cache, outbox, broker, producer, consumer, rcvars>>

\* manager.close().
ManagerClose ==
    /\ manager' = Close(manager)
    /\ last' = [op |-> "close", before |-> manager, up |-> (broker = "up"),
                returned |-> NoVal, opened |-> last.opened]
    /\ UNCHANGED <<points, cache, outbox, broker, producer, consumer, rcvars>>

\* The broker goes away under the manager's connection.
ManagerBrokerDown ==
    /\ broker = "up"
    /\ broker' = "down"
    /\ manager' = [manager EXCEPT !.connection = Broken(@)]
    /\ UNCHANGED <<points, cache, outbox, last, producer, consumer, rcvars>>

\* pika notices the lost connection: is_closed reads True.
ManagerConnectionLost ==
    /\ manager.connection = "broken"
    /\ manager' = [manager EXCEPT !.connection = Noticed(@)]
    /\ UNCHANGED <<points, cache, outbox, last, broker, producer, consumer, rcvars>>

NextManager ==
    \/ ManagerInitialize
    \/ ManagerGetConnection
    \/ ManagerClose
    \/ ManagerBrokerDown
    \/ BrokerUp
    \/ ManagerConnectionLost

SpecManager == InitManager /\ [][NextManager]_vars

\* ================================================================== claims
IsCallback == last.op = "callback"

Acks  == Len(SelectSeq(last.calls, LAMBDA c : c.call = "basic_ack"))
Nacks == Len(SelectSeq(last.calls, LAMBDA c : c.call = "basic_nack"))

\* The message was dispatched as a lifecycle or embedding-result event.
Recognized(m) ==
    /\ m.body = "dict"
    /\ m.event \in LifecycleEvents \cup {"embedding_response", "event_response"}

\* C1: a delivered message of a recognized event whose handler raised an
\* exception is settled with basic_nack(requeue=False) and never with
\* basic_ack.  (The statement as claimed; the code acknowledges.)
C1_HandlerExceptionRejected ==
    (IsCallback /\ Recognized(last.msg) /\ last.invoked /\ last.raised)
        => (Acks = 0 /\ last.calls = <<BasicNack>>)

\* C2: basic_ack is issued only for a message whose handling succeeded: a
\* message whose process_message success flag is False is never acknowledged.
\* (The statement as claimed; the code acknowledges whatever the flag.)
C2_AckOnlyOnSuccess ==
    (IsCallback /\ Acks > 0) => (last.invoked /\ last.success)

\* C3: for every delivered message and every outcome, callback returns
\* without raising and has issued exactly one settlement, one basic_ack or
\* one basic_nack, never both, never none, never a nack with requeue=True.
C3_ExactlyOneSettlement ==
    IsCallback =>
        /\ ~last.escaped
        /\ Len(last.calls) = 1
        /\ Acks + Nacks = 1
        /\ \A i \in DOMAIN last.calls : ~last.calls[i].requeue

\* C3 witness: each of the five outcomes is reachable; this one is a handler
\* failure (an exception inside a lifecycle handler) that has been settled.
C3_Witness ==
    IsCallback /\ last.invoked /\ last.raised /\ Len(last.calls) = 1

\* A body that is not valid JSON, or a JSON object without the event key.
Unparseable(m) == m.body = "badjson" \/ (m.body = "dict" /\ m.event = NoVal)

\* C4: a message whose body is not valid JSON, or is an object without an
\* event key, is settled with basic_nack(requeue=False), no handler is
\* invoked for it, and the vector store, the cache and the outbound queue
\* are left as they were.
C4_UnparseableRejectedUntouched ==
    [][ (last'.op = "callback" /\ Unparseable(last'.msg))
          => /\ last'.calls = <<BasicNack>>
             /\ ~last'.invoked
             /\ UNCHANGED <<points, cache, outbox>> ]_vars

\* C4 witness: an object without an event key was rejected while the vector
\* store and the cache held data.
C4_Witness ==
    /\ IsCallback /\ last.msg.body = "dict" /\ last.msg.event = NoVal
    /\ last.calls = <<BasicNack>>
    /\ points # {} /\ DOMAIN cache # {}

\* C5: after a delete_resource event for R has been handled with the vector
\* store and the cache reachable, no point with resource_id = R and no cache
\* entry whose resource_ids contains R remains, whatever organization_id R's
\* points and the event carry.  (The statement as claimed; the code keeps the
\* points of R whose organization_id differs from the event's.)
C5_DeleteRemovesResource ==
    ( /\ IsCallback /\ last.msg.event = "delete_resource"
      /\ ResourceEventValid(last.msg) /\ last.msg.id # ""
      /\ last.storeUp /\ last.cacheUp )
    => /\ \A p \in points : p.resource_id # last.msg.id
       /\ \A k \in DOMAIN cache : last.msg.id \notin cache[k].resource_ids

IsGet == last.op = "get"

\* The entry of the spec's example: not org-wide, role admin, user u1.
Restricted(d) ==
    /\ ~d.is_org_wide
    /\ d.allowed_roles = {"admin"}
    /\ d.allowed_user_ids = {"u1"}

\* The caller of the last get is an admin or is u1.
Entitled == "admin" \in last.user_roles \/ last.user_id = "u1"

LastKey == GenerateCacheKey(last.embedding, last.organization_id,
                            last.doc_fingerprint)

\* C6: get_conversation never returns an entry for which check_access fails
\* for the caller, by exact key or by soft match; the restricted entry
\* (is_org_wide false, role admin, user u1) is returned to an admin or to u1
\* when its key matches, some accessible entry is returned to them when its
\* embedding matches, and it is withheld from every other caller.
C6_AccessChecked ==
    IsGet =>
        /\ last.found => CheckAccess(last.user_id, last.user_roles, last.data)
        /\ \A k \in DOMAIN cache :
              Restricted(cache[k]) =>
                 /\ (Entitled /\ k = LastKey) => (last.found /\ last.key = k)
                 /\ (Entitled /\ Similar(last.embedding, cache[k].embedding))
                       => last.found
                 /\ ~Entitled => ~(last.found /\ last.key = k)

\* C6 witness: the restricted entry came back through the soft match (the
\* exact key held nothing the caller may read).
C6_Witness ==
    /\ IsGet /\ last.found /\ Restricted(last.data)
    /\ last.key # LastKey
    /\ \E k \in DOMAIN cache : Restricted(cache[k]) /\ k # last.key

\* C7: get_conversation(q, org, ...) never returns an entry that was stored
\* under another organization_id, by exact key or by soft match.  (The
\* statement as claimed; the soft-match scan covers every organization.)
C7_OrgIsolated ==
    (IsGet /\ last.found) => last.key[2] = last.organization_id

\* A delivered embedding result that passed validation.
IsResult(m) ==
    /\ m.body = "dict"
    /\ m.event \in {"embedding_response", "event_response"}
    /\ EmbeddingResponseValid(m)

\* The result reports success or partial (in any letter case) or no status.
StatusGood(m) == FieldOf(m, "status") \in {NoVal, "success", "SUCCESS", "partial"}

\* Every entry of the embeddings list is an embedding: a non-empty vector.
AllVectors(m) == \A i \in DOMAIN m.embeddings : m.embeddings[i] # << >>

\* N embeddings and an N-entry chunk map keyed '0'..'N-1', N >= 1.
RoundTripCase(m) ==
    /\ IsResult(m) /\ StatusGood(m) /\ AllVectors(m)
    /\ Len(m.chunks) >= 1
    /\ Len(m.embeddings) = Len(m.chunks)
    /\ {m.chunks[j][1] : j \in DOMAIN m.chunks}
         = {<<i>> : i \in 0..(Len(m.chunks) - 1)}

\* C8: round trip.  When a result brings N embeddings (N non-empty vectors)
\* and an N-entry chunk map keyed '0'..'N-1' (in any wire order) and the
\* vector store is reachable,
\* reconciliation adds exactly N points and removes none, and for every i the
\* one new point that holds the text of the chunk keyed i has chunk_index i.
C8_RoundTrip ==
    [][ (last'.op = "callback" /\ RoundTripCase(last'.msg) /\ last'.storeUp)
          => LET m   == last'.msg
                 new == points' \ points
             IN  /\ points \subseteq points'
                 /\ Cardinality(new) = Len(m.chunks)
                 /\ \A j \in DOMAIN m.chunks :
                       \E p \in new :
                          /\ p.text = ChunkText(m.chunks[j][2])
                          /\ p.chunk_index = ToInt(m.chunks[j][1])
                          /\ \A q \in new : q.text = p.text => q = p ]_vars

\* C8 witness: a three-chunk result whose map arrived out of order has been
\* reconciled; the point of chunk '2' (first on the wire) has chunk_index 2.
C8_Witness ==
    /\ IsCallback /\ RoundTripCase(last.msg) /\ last.storeUp
    /\ Len(last.msg.chunks) = 3 /\ last.msg.chunks[1][1] = <<2>>
    /\ \E p \in points : p.text = "c" /\ p.chunk_index = 2 /\ p.total_chunks = 3

\* C9: for every valid result with E embeddings and C chunk entries, E # C,
\* reconciliation does not raise and persists exactly min(E, C) points, the
\* i-th of them pairing embedding i with the i-th chunk in sorted key order.
\* (The statement as claimed; a chunk map that mixes numeric and non-numeric
\* keys makes the sort raise, and nothing is persisted.)
C9_MismatchPersistsPrefix ==
    [][ ( /\ last'.op = "callback" /\ IsResult(last'.msg) /\ StatusGood(last'.msg)
          /\ AllVectors(last'.msg) /\ last'.storeUp
          /\ Len(last'.msg.embeddings) # Len(last'.msg.chunks) )
          => LET m      == last'.msg
                 new    == points' \ points
                 n      == Min(Len(m.embeddings), Len(m.chunks))
                 sorted == SortChunkItems(m.chunks)
             IN  /\ ~last'.raised /\ ~last'.escaped
                 /\ points \subseteq points'
                 /\ Cardinality(new) = n
                 /\ \A i \in 0..(n - 1) :
                       \E p \in new : /\ p.chunk_index = i
                                      /\ p.vector = m.embeddings[i + 1]
                                      /\ p.text = ChunkText(sorted[i + 1][2]) ]_vars

\* The result is one that must be rejected: a status other than success or
\* partial, an empty embeddings list or an empty chunk map.
Rejectable(m) ==
    \/ ~StatusGood(m)
    \/ m.embeddings = << >>
    \/ m.chunks = << >>

\* C10: a result whose status is not success/partial, or whose embeddings
\* list is empty, or whose chunk map is empty causes no upsert: the vector
\* collection is unchanged and process_embedding_response returns False
\* without raising.
C10_RejectedResultUntouched ==
    [][ (last'.op = "callback" /\ IsResult(last'.msg) /\ Rejectable(last'.msg))
          => /\ points' = points
             /\ ~last'.success
             /\ ~last'.raised /\ ~last'.escaped ]_vars

\* C10 witness: a result with status failed that carries embeddings and
\* chunks was handled while the store was reachable and held points.
C10_Witness ==
    /\ IsCallback /\ IsResult(last.msg) /\ last.msg.status = "failed"
    /\ last.msg.embeddings # << >> /\ last.msg.chunks # << >>
    /\ last.storeUp /\ ~last.success /\ points # {}

\* ---------------------------------------------------------------- splitter
IsSplit == last.op = "split"

\* The text is one table and nothing else, larger than max_tokens.
OversizeTableAlone ==
    /\ IsSplit
    /\ last.text \in {SmallTable, DocumentedTable}
    /\ CountTokens(last.text, last.cfg.encoding) > last.cfg.max_tokens

\* C11: for a text that is one pipe-delimited table alone (header row,
\* separator row, one data row) with more tokens than max_tokens, split_text
\* returns exactly one chunk, the whole table.
C11_TableAloneIsOneChunk == OversizeTableAlone => last.chunks = <<last.text>>

WithinLimit(chunk) == CountTokens(chunk, last.cfg.encoding) <= last.cfg.max_tokens

\* The text of the i-th detected table region.
TableText(i) == Slice(last.text, last.tables[i][1], last.tables[i][2])

\* The chunk holds, or is a piece of, a table that is itself over the limit.
\* split_text returns plain strings, so no chunk carries a flag; every such
\* chunk is counted as exempt, flagged or not.
OversizeTableFragment(chunk) ==
    \E i \in 1..Len(last.tables) :
        /\ ~WithinLimit(TableText(i))
        /\ \/ Occurrences(chunk, TableText(i)) # {}
           \/ Occurrences(TableText(i), chunk) # {}

\* C12: every chunk returned by split_text has count_tokens(chunk) <=
\* max_tokens, unless it is a fragment of an oversize table.
C12_ChunksWithinLimit ==
    IsSplit =>
        \A j \in 1..Len(last.chunks) :
            WithinLimit(last.chunks[j]) \/ OversizeTableFragment(last.chunks[j])

\* C13: every detected table region whose own token count is <= max_tokens
\* is found whole, as one contiguous piece, inside one of the chunks.
C13_SmallTableInOneChunk ==
    IsSplit =>
        \A i \in 1..Len(last.tables) :
            WithinLimit(TableText(i)) =>
                \E j \in 1..Len(last.chunks) :
                    Occurrences(last.chunks[j], TableText(i)) # {}

\* The chunks concatenated in order, by halves.
RECURSIVE Concatenated(_, _, _)
Concatenated(chunks, lo, hi) ==
    IF lo > hi THEN << >>
    ELSE IF lo = hi THEN chunks[lo]
    ELSE Concatenated(chunks, lo, (lo + hi) \div 2)
         \o Concatenated(chunks, ((lo + hi) \div 2) + 1, hi)

\* The text without its whitespace.
Squash(text) == SelectSeq(text, LAMBDA c : c \notin Whitespace)

Reconstructs ==
    Squash(Concatenated(last.chunks, 1, Len(last.chunks))) = Squash(last.text)

\* split_text has returned for a text with no table region.
PlainSplit == IsSplit /\ last.tables = << >>

DeleteFails(m, env) ==
    /\ m.event = "edit_resource" /\ m.id # ""
    /\ ~env.storeUp \/ ~env.cacheUp

\* The upload transition itself can succeed: the file is extracted into
\* chunks and the broker takes the task.
UploadCanSucceed(m, env) ==
    /\ ~ExtractRaises(DetermineFileType(m.ext), env)
    /\ env.texts # << >>
    /\ env.brokerUp

\* C15: when the delete of an edit_resource event (or the cache invalidation
\* before it) raises, process_edit swallows the failure and still performs
\* the upload transition: the handler does not fail and a new create_embedding
\* task for the resource is published.
C15_EditPublishesAfterFailedDelete ==
    [][ \A m \in Messages : \A env \in EnvsFor(m) :
          (DeleteFails(m, env) /\ UploadCanSucceed(m, env) /\ Callback(m, env))
            => /\ ~last'.raised
               /\ last'.success
               /\ Len(outbox') = Len(outbox) + 1
               /\ outbox'[Len(outbox')].event = "create_embedding"
               /\ outbox'[Len(outbox')].resource_id = m.id ]_vars

\* C15 witness: an edit whose delete failed on the vector store, leaving the
\* old points in place, has published the task.
C15_Witness ==
    /\ IsCallback /\ last.msg.event = "edit_resource"
    /\ ~last.storeUp /\ ~last.raised
    /\ points # {}
    /\ outbox # << >> /\ outbox[Len(outbox)].resource_id = last.msg.id

\* --------------------------------------------------------------- producer
\* C16: publish_message never raises, whatever fails; a failed basic_publish
\* is not tried again and leaves no cached channel and nothing published, and
\* the call that follows a failed one publishes, if at all, on a channel it
\* has just opened.
C16_PublishNeverRaises ==
    [][ Publish =>
          /\ ~last'.raised
          /\ last'.attempts <= 1
          /\ last'.failed => (producer'.channel = NoVal /\ outbox' = outbox)
          /\ (last'.after_failure /\ last'.attempts = 1) => last'.opened ]_vars

\* C16 witness: the call after a failed basic_publish opened a fresh channel
\* and published on it.
C16_Witness ==
    /\ last.op = "publish"
    /\ last.after_failure /\ last.opened /\ last.published
    /\ producer.channel = "open"

\* --------------------------------------------------------------- consumer
\* The thread is in start_consuming on a live connection and channel.
Consuming ==
    /\ consumer.pc = "consuming"
    /\ consumer.cm.connection = "open" /\ consumer.channel = "open"

\* C17: while the consumer is running consume_queue never exits; a failure of
\* connect, declare or consume leaves no channel and no open connection and
\* puts the thread to sleep before the next turn, any number of times; and
\* if the broker becomes and stays reachable while the consumer runs, the
\* thread is consuming again and again.
C17_ConsumeRetriesForever ==
    /\ [](consumer.pc = "exited" => ~consumer.running)
    /\ [](consumer.pc = "sleep" =>
            (consumer.channel = NoVal /\ ~NotClosed(consumer.cm.connection)))
    /\ (<>[](broker = "up" /\ consumer.running)) => []<>Consuming

\* C17 witness: the thread is consuming after MaxAttempts turns of the loop,
\* the earlier ones failed.
C17_Witness == Consuming /\ consumer.running /\ consumer.attempts = MaxAttempts

\* ------------------------------------------------------- cache store faults
\* The store failed during the last get.
StoreFailed ==
    /\ IsGet
    /\ ~last.faults.getOk \/ ~last.faults.scanOk \/ last.faults.unparsable # {}

\* C18: when the cache store fails during get_conversation (the exact-key get
\* or the scan raises, or a stored value cannot be parsed) no exception
\* reaches the caller, and a store that could not be read yields None.
C18_StoreFailureIsMiss ==
    StoreFailed =>
        /\ ~last.raised
        /\ (~last.faults.getOk \/ ~last.faults.scanOk) => ~last.found

\* C19: invalidate_cache_by_resource_id(id) is idempotent.  After a call no
\* remaining entry lists id in resource_ids; every entry that did not list id
\* is still there with its payload, after the first call and after the second;
\* a second call for the same id with no set in between deletes no entry and
\* leaves the cache as it found it.
C19_InvalidateIdempotent ==
    last.op = "invalidate" =>
        /\ \A k \in DOMAIN cache : last.resource_id \notin cache[k].resource_ids
        /\ \A k \in DOMAIN last.before :
              last.resource_id \notin last.before[k].resource_ids =>
                  (k \in DOMAIN cache /\ cache[k] = last.before[k])
        /\ last.deleted = {k \in DOMAIN last.before :
                              last.resource_id \in last.before[k].resource_ids}
        /\ last.repeat => (last.deleted = {} /\ cache = last.before)

\* A second call for a resource whose first call deleted an entry, with an
\* entry of another resource still cached.
C19_Witness ==
    /\ last.op = "invalidate"
    /\ last.repeat
    /\ last.prior # {}
    /\ cache # << >>

\* ------------------------------------------------------------- extraction
\* A create or upload event that reaches the upload transition.
UploadEvent(m) ==
    /\ m.body = "dict"
    /\ m.event \in {"upload_resource", "create_resource"}
    /\ ResourceEventValid(m)

\* One of the two extractors returns the text of the file: the vision
\* extraction, or the text loader of the file type.
AnExtractorSucceeds(m, env) ==
    \/ env.visionOk
    \/ ~ExtractRaises(DetermineFileType(m.ext), env)

\* C20: on a create/upload event the extraction falls back from the preferred
\* extractor to the plain-text one, so that whenever one of the two extractors
\* returns chunks (and the broker takes the message) the handler does not fail
\* and the embedding task of the resource is published; ingestion is aborted
\* only when both extractors fail.  (The statement as claimed; the upload
\* transition calls one loader and no second extractor.)
C20_ExtractionFallsBack ==
    [][ \A m \in Messages : \A env \in EnvsFor(m) :
          (/\ UploadEvent(m)
           /\ AnExtractorSucceeds(m, env)
           /\ env.texts # << >>
           /\ env.brokerUp
           /\ Callback(m, env))
            => /\ ~last'.raised
               /\ Len(outbox') = Len(outbox) + 1
               /\ outbox'[Len(outbox')].event = "create_embedding"
               /\ outbox'[Len(outbox')].resource_id = m.id ]_vars

\* ----------------------------------------------------------- reconciliation
\* The number of points a result brings: its (embedding, chunk) pairs with a
\* non-empty vector.
PairsOf(m) ==
    Cardinality({i \in 1..Min(Len(m.embeddings), Len(m.chunks)) :
                    m.embeddings[i] # << >>})

\* The result passes every check before persistence and has a point to store.
Persistable(m) ==
    /\ IsResult(m) /\ StatusGood(m)
    /\ ~SortRaises(m.chunks)
    /\ m.embeddings # << >> /\ m.chunks # << >>
    /\ PairsOf(m) >= 1

\* C21: the points of one result are written by one batched upsert: handling
\* a result adds either all of its points or none and removes none; when the
\* store is unreachable nothing is written, and for a result that had points
\* to store process_embedding_response returns False with no exception
\* leaving it.
C21_UpsertAllOrNothing ==
    [][ \A m \in ReconcileMsgs : \A env \in EnvsFor(m) :
          (m = last'.msg /\ env.storeUp = last'.storeUp /\ Callback(m, env)) =>
            /\ points \subseteq points'
            /\ Cardinality(points' \ points) \in {0, PairsOf(m)}
            /\ ~env.storeUp => points' = points
            /\ (~env.storeUp /\ Persistable(m))
                 => (~last'.success /\ ~last'.raised /\ ~last'.escaped)
            /\ (env.storeUp /\ Persistable(m))
                 => (last'.success /\ Cardinality(points' \ points) = PairsOf(m)) ]_vars

\* A result of two points met an unreachable store after an earlier result
\* had been stored: it failed and the collection holds the earlier points only.
C21_Witness ==
    /\ IsCallback /\ Persistable(last.msg) /\ PairsOf(last.msg) = 2
    /\ ~last.storeUp /\ ~last.success
    /\ points # {}

\* A point without its id.
ContentOf(p) ==
    [vector |-> p.vector, resource_id |-> p.resource_id,
     organization_id |-> p.organization_id, chunk_index |-> p.chunk_index,
     total_chunks |-> p.total_chunks, text |-> p.text]

\* The collection holds the points of result m once and nothing else: m was
\* the delivery just handled, it succeeded, and its points are all there is.
ReconciledOnce(m) ==
    /\ IsCallback /\ last.msg = m /\ last.success
    /\ Persistable(m)
    /\ Cardinality(points) = PairsOf(m)

\* C22: reconciliation is not idempotent under redelivery.  When the result
\* whose N points are the whole collection is delivered again, the collection
\* holds 2N points afterwards: the N old ones, and for each of them a new
\* point of the same content under an id no old point carries.
C22_RedeliveryDuplicates ==
    [][ \A m \in ReconcileMsgs : \A env \in EnvsFor(m) :
          (ReconciledOnce(m) /\ env.storeUp /\ Callback(m, env)) =>
            /\ points \subseteq points'
            /\ Cardinality(points') = 2 * PairsOf(m)
            /\ \A p \in points : \E q \in points' \ points :
                  /\ ContentOf(q) = ContentOf(p)
                  /\ q.id \notin {x.id : x \in points} ]_vars

\* A two-chunk result delivered twice: four points, each content twice.
C22_Witness ==
    /\ IsCallback /\ Persistable(last.msg) /\ last.success
    /\ PairsOf(last.msg) = 2
    /\ Cardinality(points) = 4
    /\ Cardinality({ContentOf(p) : p \in points}) = 2
    /\ Cardinality({p.id : p \in points}) = 4

\* ---------------------------------------------------------------- messages
\* The keys of a lifecycle message as documented: the optional fields absent.
DocumentedKeys == {"id", "resource_name", "resource_path", "user_id", "organization_id"}

\* A lifecycle message that carries the documented keys.
DocumentedLifecycle(m) ==
    /\ m.body = "dict"
    /\ m.event \in {"upload_resource", "create_resource", "edit_resource", "delete_resource"}
    /\ DocumentedKeys \subseteq m.keys

\* C23: a lifecycle message carrying event, id, resource_name, resource_path,
\* user_id and organization_id is accepted: it is parsed into a ResourceEvent
\* and routed to the transition of its event, so its handling either succeeds
\* or ends with an exception of the transition.  (The statement as claimed; the
\* model also requires service_name and extraction_type.)
C23_DocumentedLifecycleAccepted ==
    (IsCallback /\ DocumentedLifecycle(last.msg))
        => (last.invoked /\ (last.success \/ last.raised))

\* An embedding result of the documented shape: the resource under the key
\* resource_id, status success, embeddings and chunks non-empty.
DocumentedResult(m) ==
    /\ m.body = "dict"
    /\ m.event = "embedding_response"
    /\ "resource_id" \in m.keys
    /\ "status" \in m.keys /\ m.status = "success"
    /\ m.embeddings # << >> /\ m.chunks # << >>
    /\ AllVectors(m) /\ ~SortRaises(m.chunks)

\* C24: an inbound embedding result that names its resource by the key
\* resource_id, with status success and non-empty embeddings and chunks,
\* passes validation, and with the vector store reachable its points are
\* persisted under that resource_id.  (The statement as claimed; the model
\* reads the resource from the key id only.)
C24_ResourceIdKeyAccepted ==
    (IsCallback /\ DocumentedResult(last.msg) /\ last.storeUp)
        => /\ last.success
           /\ \E p \in points : p.resource_id = last.msg.id

\* ------------------------------------------------------ connection manager
\* The manager is initialized and holds a connection whose is_closed reads
\* False.
HoldsLive(cm) == cm.is_initialized /\ cm.connection \in {"open", "broken"}

\* C25: initialize() is idempotent.  When the manager is initialized and its
\* connection is not closed, a further initialize() makes no connection and
\* leaves connection and is_initialized as they were; so consecutive calls
\* on a new manager with a reachable broker open one connection.
C25_InitializeIdempotent ==
    [][ (ManagerInitialize /\ HoldsLive(manager))
          => (manager' = manager /\ last'.opened = last.opened) ]_vars

\* A second initialize() found the one open connection and left it.
C25_Witness ==
    /\ last.op = "initialize"
    /\ last.before = [connection |-> "open", is_initialized |-> TRUE]
    /\ manager = last.before
    /\ last.opened = 1

\* C26 as claimed: get_connection() returns an open connection whenever the
\* broker is reachable, whatever the prior state, and None with the state
\* cleared whenever the broker is unreachable.
C26_GetConnectionFollowsBroker ==
    [][ ManagerGetConnection =>
          IF broker = "up"
          THEN last'.returned = "open" /\ manager'.connection = "open"
          ELSE last'.returned = NoVal /\ manager' = NewConnection ]_vars

\* C26: get_connection() returns the connection it holds, untouched, while
\* the manager is initialized and the connection does not read closed, even
\* if the broker has gone away under it.  From every other prior state (never
\* initialized, failed initialize, closed by close(), closed by the broker) it
\* connects again: with the broker reachable it returns a new open connection
\* and is_initialized is True; with the broker unreachable it returns None
\* with is_initialized False and connection None.
C26_GetConnectionReconnects ==
    [][ ManagerGetConnection =>
          IF HoldsLive(manager)
          THEN /\ manager' = manager
               /\ last'.returned = manager.connection
               /\ last'.opened = last.opened
          ELSE IF broker = "up"
          THEN /\ manager' = [connection |-> "open", is_initialized |-> TRUE]
               /\ last'.returned = "open"
               /\ last'.opened = last.opened + 1
          ELSE /\ manager' = NewConnection
               /\ last'.returned = NoVal
               /\ last'.opened = last.opened ]_vars

\* A get_connection() that found the connection closed by the broker and
\* returned a new open one.
C26_Witness ==
    /\ last.op = "get_connection"
    /\ last.before = [connection |-> "closed", is_initialized |-> TRUE]
    /\ last.returned = "open"
    /\ manager.connection = "open"

\* C27: close() leaves the manager without a connection that reads open,
\* from every state; a manager without such a connection is left as it is,
\* so a second close() changes nothing; close() opens no connection.
C27_CloseRepeatable ==
    [][ ManagerClose =>
          /\ manager'.connection \in {NoVal, "closed"}
          /\ ~HoldsLive(manager')
          /\ manager.connection \in {NoVal, "closed"} => manager' = manager
          /\ HoldsLive(manager) => manager' = NewConnection
          /\ last.op = "close" => manager' = manager
          /\ last'.opened = last.opened ]_vars

\* A second close() of a manager that had opened a connection.
C27_Witness ==
    /\ last.op = "close"
    /\ last.opened >= 1
    /\ last.before = NewConnection
    /\ manager = NewConnection

\* ------------------------------------------------------------------- stop
\* C28: after stop() the consumer loop eventually stops receiving and exits
\* and its connection is closed, wherever the loop was when stop() ran.  (The
\* statement as claimed; a loop that has passed its while test connects and
\* consumes after stop() has returned.)
C28_StopEndsConsuming ==
    (~consumer.running)
        ~> (consumer.pc = "exited" /\ ~NotClosed(consumer.cm.connection))

\* ------------------------------------------------------------- round trip
\* C29: set/get round trip.  set_conversation(q, org, fp, data) leaves under
\* its key the payload data with the query embedding added, replacing what
\* the key held, and touches no other key; and a get_conversation whose exact
\* key holds an entry that passes the caller's access check returns that
\* entry, by that key.
C29_SetGetRoundTrip ==
    /\ [][ \A e \in {QA, QA2}, org \in Orgs, d \in CacheData :
             SetConversation(e, org, "", d) =>
               /\ DOMAIN cache' = DOMAIN cache \cup {GenerateCacheKey(e, org, "")}
               /\ cache'[GenerateCacheKey(e, org, "")] = [d EXCEPT !.embedding = e]
               /\ \A k \in DOMAIN cache :
                     k # GenerateCacheKey(e, org, "") => cache'[k] = cache[k] ]_vars
    /\ []( (/\ IsGet
            /\ LastKey \in DOMAIN cache
            /\ CheckAccess(last.user_id, last.user_roles, cache[LastKey]))
             => (/\ last.found
                 /\ last.key = LastKey
                 /\ last.data = cache[LastKey]) )

\* The entry a set stored came back to an entitled caller by its exact key,
\* with the query embedding in it, next to an entry of another key.
C29_Witness ==
    /\ IsGet /\ last.found /\ last.key = LastKey
    /\ last.data.embedding = last.embedding
    /\ Restricted(last.data)
    /\ Cardinality(DOMAIN cache) = 2

\* ------------------------------------------------------------ chunk order
\* Every key of the chunk map is a decimal string.
AllDigitKeys(m) == \A j \in DOMAIN m.chunks : IsDigit(m.chunks[j][1])

\* The order the chunks are to be recovered in: by the integer value of the
\* keys when all of them are decimal strings, else by the keys as strings.
KeyBefore(m, a, b) ==
    IF AllDigitKeys(m) THEN ToInt(a) < ToInt(b) ELSE StrLess(a, b)

\* The place of the j-th wire entry in the recovered order (from 0).
RankOf(m, j) ==
    Cardinality({i \in DOMAIN m.chunks : KeyBefore(m, m.chunks[i][1], m.chunks[j][1])})

\* A result with as many embeddings as chunks, at least one, all vectors
\* non-empty, whose keys are distinct.
OrderCase(m) ==
    /\ IsResult(m) /\ StatusGood(m) /\ AllVectors(m)
    /\ Len(m.chunks) >= 1
    /\ Len(m.embeddings) = Len(m.chunks)

\* C30: chunk order recovery.  With the store reachable, a result whose chunk
\* keys are decimal strings is persisted in the order of the keys' integer
\* values ('10' after '9'), whatever the wire order; a result whose key set
\* contains non-numeric keys is persisted in the lexicographic order of its
\* keys, and reconciliation proceeds.  (The statement as claimed; a map that
\* mixes numeric and non-numeric keys makes the sort raise.)
C30_ChunkOrderRecovered ==
    [][ \A m \in ReconcileMsgs : \A env \in EnvsFor(m) :
          (/\ m = last'.msg /\ env.storeUp = last'.storeUp /\ env.storeUp
           /\ OrderCase(m)
           /\ Callback(m, env))
            => /\ last'.success
               /\ \A j \in DOMAIN m.chunks :
                     \E p \in points' \ points :
                        /\ p.chunk_index = RankOf(m, j)
                        /\ p.text = ChunkText(m.chunks[j][2])
                        /\ p.vector = m.embeddings[RankOf(m, j) + 1] ]_vars

\* ------------------------------------------------------------ large tables
\* str.split('\n'): the lines of a text.
RECURSIVE SplitLines(_)
SplitLines(text) ==
    IF Find(text, <<"\n">>) = -1 THEN <<text>>
    ELSE <<Slice(text, 0, Find(text, <<"\n">>))>>
           \o SplitLines(Slice(text, Find(text, <<"\n">>) + 1, Len(text)))

\* The chunks that hold the line as one of their own lines.
ChunksWithLine(line) ==
    {j \in 1..Len(last.chunks) :
        \E k \in 1..Len(SplitLines(last.chunks[j])) : SplitLines(last.chunks[j])[k] = line}

\* The first two lines of the chunk are the given header and separator rows.
StartsWithHeader(chunk, header, separator) ==
    /\ Len(SplitLines(chunk)) >= 2
    /\ SplitLines(chunk)[1] = header
    /\ SplitLines(chunk)[2] = separator

\* The rows of the i-th table region: header, separator, then the data rows.
RowsOf(i) == SelectSeq(SplitLines(TableText(i)), LAMBDA line : line # << >>)

\* C31: when a detected table has more tokens than max_tokens, every data row
\* of it is a whole line of exactly one chunk returned by split_text, and
\* every chunk holding one of its data rows starts with the table's header
\* row and separator row.
C31_LargeTableSplitByRows ==
    IsSplit =>
        \A i \in 1..Len(last.tables) :
            ~WithinLimit(TableText(i)) =>
                \A r \in 3..Len(RowsOf(i)) :
                    /\ Cardinality(ChunksWithLine(RowsOf(i)[r])) = 1
                    /\ \A j \in ChunksWithLine(RowsOf(i)[r]) :
                          StartsWithHeader(last.chunks[j], RowsOf(i)[1], RowsOf(i)[2])

\* ---------------------------------------------------------- context window
\* The context before and after the i-th table region.
ContextBefore(i) ==
    Slice(last.text, ContextStart(last.tables[i][1], last.cfg), last.tables[i][1])

ContextAfter(i) ==
    Slice(last.text, last.tables[i][2], ContextEnd(last.text, last.tables[i][2], last.cfg))

\* The table with its context window on both sides.
Unit(i) == ContextBefore(i) \o TableText(i) \o ContextAfter(i)

\* C32: when a table together with its context window (context_window_tokens
\* * 4 characters before it and after it) has at most max_tokens tokens, one
\* of the chunks returned by split_text is exactly that unit: the context
\* before, the complete table, the context after.
C32_FittingUnitIsOneChunk ==
    IsSplit =>
        \A i \in 1..Len(last.tables) :
            WithinLimit(Unit(i)) =>
                \E j \in 1..Len(last.chunks) : last.chunks[j] = Unit(i)

\* A fitting unit with context on both sides came back as one chunk, next to
\* chunks of the text outside the window.
C32_Witness ==
    /\ IsSplit
    /\ \E i \in 1..Len(last.tables) :
          /\ WithinLimit(Unit(i))
          /\ ContextBefore(i) # << >>
          /\ ContextAfter(i) # << >>
          /\ \E j \in 1..Len(last.chunks) : last.chunks[j] = Unit(i)
    /\ Len(last.chunks) > 1

\* C33: the full text of every detected table region, whatever its size and
\* wherever it lies in the text, occurs in at least one chunk returned by
\* split_text.
C33_NoTableLost ==
    IsSplit =>
        \A i \in 1..Len(last.tables) :
            \E j \in 1..Len(last.chunks) :
                Occurrences(last.chunks[j], TableText(i)) # {}

\* ------------------------------------------------------- order of a lookup
\* The positions of the scan order whose entry is similar enough to the
\* embedding (similarity >= 0.90) and passes the access check.
ScanHits(order, embedding, user_id, user_roles) ==
    {i \in 1..Len(order) :
        /\ Similar(embedding, cache[order[i]].embedding)
        /\ CheckAccess(user_id, user_roles, cache[order[i]])}

\* The exact key holds an entry and the caller may read it.
ExactHit(key, user_id, user_roles) ==
    key \in DOMAIN cache /\ CheckAccess(user_id, user_roles, cache[key])

\* C34: get_conversation returns the entry under the exact key when it exists
\* and passes the access check, whatever the scan would yield; otherwise
\* (also when the exact-key entry fails the access check) it returns the
\* first entry in scan order with similarity >= 0.90 that passes the access
\* check, and None when there is none; the cache is only read.
C34_LookupOrder ==
    [][ \A e \in {QA, QB}, org \in Orgs, c \in Callers :
          (last'.op = "get" /\ e = last'.embedding /\ org = last'.organization_id
              /\ c[1] = last'.user_id /\ c[2] = last'.user_roles) =>
            \A order \in ScanOrders(cache) :
              GetConversation(e, org, c[1], c[2], "", order) =>
                /\ cache' = cache
                /\ ExactHit(GenerateCacheKey(e, org, ""), c[1], c[2]) =>
                      /\ last'.found
                      /\ last'.key = GenerateCacheKey(e, org, "")
                      /\ last'.data = cache[GenerateCacheKey(e, org, "")]
                /\ (~ExactHit(GenerateCacheKey(e, org, ""), c[1], c[2])
                      /\ ScanHits(order, e, c[1], c[2]) # {}) =>
                      /\ last'.found
                      /\ \E i \in ScanHits(order, e, c[1], c[2]) :
                            /\ \A j \in ScanHits(order, e, c[1], c[2]) : i <= j
                            /\ last'.key = order[i]
                            /\ last'.data = cache[order[i]]
                /\ (~ExactHit(GenerateCacheKey(e, org, ""), c[1], c[2])
                      /\ ScanHits(order, e, c[1], c[2]) = {}) =>
                      /\ ~last'.found
                      /\ last'.data = NoVal ]_vars

\* The exact key held an entry the caller may not read, and the lookup went
\* on to return another entry by soft match.
C34_Witness ==
    /\ IsGet /\ last.found
    /\ LastKey \in DOMAIN cache
    /\ ~CheckAccess(last.user_id, last.user_roles, cache[LastKey])
    /\ last.key # LastKey

\* ------------------------------------------------- order inside a delete
\* C39: delete_embeddings invalidates the cache before it deletes points.
\* When the invalidation raises (the cache is unreachable) no point is
\* deleted, the cache is as it was and the exception leaves delete_embeddings;
\* when only the vector store fails, the entries of the resource are already
\* gone from the cache, the points are untouched and the exception leaves
\* delete_embeddings too.
C39_InvalidateBeforeDelete ==
    [][ \A m \in DeleteMsgs : \A env \in EnvsFor(m) :
          (last'.op = "callback" /\ m = last'.msg /\ env.storeUp = last'.storeUp
              /\ env.cacheUp = last'.cacheUp /\ Callback(m, env)) =>
            /\ ~env.cacheUp =>
                  /\ points' = points
                  /\ cache' = cache
                  /\ last'.raised
            /\ (env.cacheUp /\ ~env.storeUp) =>
                  /\ points' = points
                  /\ DOMAIN cache' = {k \in DOMAIN cache : m.id \notin cache[k].resource_ids}
                  /\ \A k \in DOMAIN cache' : cache'[k] = cache[k]
                  /\ last'.raised ]_vars

\* A delete whose cache invalidation raised with the vector store reachable:
\* the points of the resource and the cached answers that depend on it are
\* still there.
C39_Witness ==
    /\ IsCallback /\ last.msg.event = "delete_resource"
    /\ ~last.cacheUp /\ last.storeUp /\ last.raised
    /\ \E p \in points :
          MatchesDeleteFilter(p, last.msg.id, last.msg.organization_id)
    /\ \E k \in DOMAIN cache : last.msg.id \in cache[k].resource_ids

\* -------------------------------------------- upload, edit and their results
\* One resource whose file changes with every edit: the n-th lifecycle event
\* finds the n-th version of the file, extracted into one chunk.
Versions == <<"v1", "v2", "v3", "v4", "v5">>

UploadMsg == Lifecycle("upload_resource", ResourceEventRequired, "r1", "o1", "pdf")

EditMsg == Lifecycle("edit_resource", ResourceEventRequired, "r1", "o1", "pdf")

\* The collaborators as the n-th event finds them: the stores and the broker
\* reachable, the extraction succeeding or not.
EventEnv(n, extractOk) ==
    [AllUp EXCEPT !.texts = <<Versions[n]>>, !.extractOk = extractOk]

\* The embedding worker's answer to a task: one vector per text, the chunk
\* map keyed by index, the resource identity of the task echoed.
ResultOf(task) ==
    Msg("dict", "embedding_response", {"id", "service_name", "organization_id"},
        task.resource_id, task.organization_id, NoVal, NoVal,
        [i \in 1..Len(task.texts) |-> Vec],
        [i \in 1..Len(task.texts) |-> Chunk(<<i - 1>>, task.texts[i])])

\* The points of the resource that a delete for the event would select.
PointsOf(m, pts) == {p \in pts : MatchesDeleteFilter(p, m.id, m.organization_id)}

InitEdit ==
    /\ points = {}
    /\ cache = << >>
    /\ outbox = << >>
    /\ last = [op |-> "init"]
    /\ broker = "up"
    /\ producer = NoVal
    /\ consumer = NoVal
    /\ manager = NoVal
    /\ NoReconciliation

\* A lifecycle event handled by the consumer of the event queue.  handled
\* notes the task it published (0 when none), how many points it removed, and
\* that the task's result is still awaited.
HandleEvent(m, env) ==
    /\ Len(handled) < Min(MaxHandled, Len(Versions))
    /\ Handled(m, env)
    /\ handled' = Append(handled,
                         [event |-> m.event,
                          task |-> IF Len(outbox') > Len(outbox) THEN Len(outbox') ELSE 0,
                          removed |-> Cardinality(points \ points'),
                          result |-> "awaited"])
    /\ UNCHANGED <<mqvars, collection, reconcilers>>

ResourceUploaded ==
    /\ handled = << >>
    /\ \E x \in BOOLEAN : HandleEvent(UploadMsg, EventEnv(1, x))

ResourceEdited ==
    /\ handled # << >>
    /\ \E x \in BOOLEAN : HandleEvent(EditMsg, EventEnv(Len(handled) + 1, x))

\* The result of a published task arrives on the result queue, whose consumer
\* is a thread of its own: any awaited result can be the next one handled.
ResultDelivered ==
    \E k \in 1..Len(handled) : \E s \in BOOLEAN :
        /\ handled[k].task # 0
        /\ handled[k].result = "awaited"
        /\ Handled(ResultOf(outbox[handled[k].task]), [AllUp EXCEPT !.storeUp = s])
        /\ handled' = [handled EXCEPT ![k].result = IF last'.success THEN "stored"
                                                     ELSE "failed"]
        /\ UNCHANGED <<mqvars, collection, reconcilers>>

NextEdit == ResourceUploaded \/ ResourceEdited \/ ResultDelivered

SpecEdit == InitEdit /\ [][NextEdit]_vars

\* ------------------------------------------------- edit is not atomic
\* C35: an edit_resource event handled with the stores reachable leaves no
\* point of the resource that its delete selects, whether or not the new task
\* is then published (the delete is complete before the publish and is not
\* undone); the edit adds no point itself, and a point appears only when an
\* embedding result is reconciled.
C35_EditDeletesThenPublishes ==
    [][ /\ \A x \in BOOLEAN :
             (last'.op = "callback" /\ last'.msg = EditMsg
                 /\ Handled(EditMsg, EventEnv(Len(handled) + 1, x))) =>
               /\ PointsOf(EditMsg, points') = {}
               /\ points' \subseteq points
               /\ x => /\ last'.success
                       /\ Len(outbox') = Len(outbox) + 1
                       /\ outbox'[Len(outbox')].resource_id = EditMsg.id
                       /\ outbox'[Len(outbox')].texts = <<Versions[Len(handled) + 1]>>
               /\ ~x => outbox' = outbox
        /\ (points' \ points # {}) =>
               (last'.op = "callback" /\ last'.msg.event = "embedding_response") ]_vars

\* The state between the two: the edit removed the points the resource had,
\* its task is published and unanswered, and a reader finds no point of the
\* resource.
C35_Witness ==
    /\ handled # << >>
    /\ last.op = "callback" /\ last.msg = EditMsg /\ last.success
    /\ handled[Len(handled)].event = "edit_resource"
    /\ handled[Len(handled)].removed > 0
    /\ handled[Len(handled)].task = Len(outbox)
    /\ handled[Len(handled)].result = "awaited"
    /\ {p \in points : p.resource_id = EditMsg.id} = {}

\* C36: once the latest event handled is an edit whose own task's result has
\* been reconciled, every point of the resource carries the text of that
\* task, in whatever order the results of the earlier tasks were delivered.
C36_OnlyEditsPointsRemain ==
    (/\ handled # << >>
     /\ handled[Len(handled)].event = "edit_resource"
     /\ handled[Len(handled)].task # 0
     /\ handled[Len(handled)].result = "stored") =>
        \A p \in points :
            p.resource_id = EditMsg.id =>
                <<p.text>> = outbox[handled[Len(handled)].task].texts

\* ------------------------------------------- consumers.py: start() and stop()
\* A RabbitMQConsumer subscribed to one queue, with every thread start() has
\* made for it.  channels and connection_managers are the object's
\* dictionaries at that queue's key: the index of the thread whose channel
\* (whose connection manager) is registered there, 0 when the key is
\* absent.  A thread is [pc, cm, channel, attempts] as in SpecConsume, with
\* pc "new" before consume_queue has registered its manager.  The broker
\* stays reachable.
NewThread == [pc |-> "new", cm |-> NewConnection, channel |-> NoVal, attempts |-> 0]

InitStartStop ==
    /\ points = {}
    /\ cache = << >>
    /\ outbox = << >>
    /\ last = [op |-> "init"]
    /\ broker = "up"
    /\ producer = NoVal
    /\ consumer = [running |-> FALSE, channels |-> 0,
                   connection_managers |-> 0, threads |-> << >>]
    /\ manager = NoVal
    /\ NoReconciliation

\* A step of the i-th thread that leaves it as t and the object's channels
\* entry as ch.
ThreadStep(i, step, t, ch) ==
    /\ consumer' = [consumer EXCEPT !.threads[i] = t, !.channels = ch]
    /\ last' = [op |-> "consume", step |-> step, thread |-> i]
    /\ UNCHANGED <<points, cache, outbox, broker, producer, manager, rcvars>>

\* start(): nothing while running; else one new thread for the queue, which
\* is appended to self.threads.
Start ==
    /\ Len(consumer.threads) < MaxThreads
    /\ consumer' = IF consumer.running THEN consumer
                   ELSE [consumer EXCEPT !.running = TRUE,
                                         !.threads = Append(@, NewThread)]
    /\ last' = [op |-> "start", wasRunning |-> consumer.running,
                threads |-> Len(consumer'.threads)]
    /\ UNCHANGED <<points, cache, outbox, broker, producer, manager, rcvars>>

\* The channel of the i-th thread after stop() has gone through self.channels.
StoppedChannel(c, i) ==
    IF c.channels = i /\ c.threads[i].channel = "open" THEN NoVal
    ELSE c.threads[i].channel

\* The manager of the i-th thread after stop() has closed the registered ones.
StoppedManager(c, i) ==
    IF c.connection_managers = i THEN Close(c.threads[i].cm) ELSE c.threads[i].cm

\* stop(): nothing unless running; else running is cleared, the registered
\* channel is stopped, closed and popped, the registered manager is closed
\* and the dictionary of managers replaced.  No thread is joined and
\* self.threads is left as it is.
StopConsumer ==
    /\ consumer.running
    /\ consumer' = [running |-> FALSE, channels |-> 0,
                    connection_managers |-> 0,
                    threads |-> [i \in 1..Len(consumer.threads) |->
                                   [consumer.threads[i] EXCEPT
                                      !.channel = StoppedChannel(consumer, i),
                                      !.cm = StoppedManager(consumer, i)]]]
    /\ last' = [op |-> "stop"]
    /\ UNCHANGED <<points, cache, outbox, broker, producer, manager, rcvars>>

\* consume_queue up to the loop: the thread's manager is registered.
ThreadBegin(i) ==
    /\ consumer.threads[i].pc = "new"
    /\ consumer' = [consumer EXCEPT !.threads[i].pc = "loop",
                                    !.connection_managers = i]
    /\ last' = [op |-> "consume", step |-> "begin", thread |-> i]
    /\ UNCHANGED <<points, cache, outbox, broker, producer, manager, rcvars>>

ThreadWhile(i) ==
    /\ consumer.threads[i].pc = "loop"
    /\ ThreadStep(i, "while",
                  [consumer.threads[i] EXCEPT
                      !.pc = IF consumer.running THEN "entered" ELSE "exited"],
                  consumer.channels)

ThreadConnect(i) ==
    /\ consumer.threads[i].pc = "entered"
    /\ ThreadStep(i, "connect",
                  Connected(consumer.threads[i],
                            GetConnection(Initialize(consumer.threads[i].cm, broker = "up"),
                                          broker = "up")),
                  consumer.channels)

\* The channel is made and registered under the queue's key; a failure pops
\* whatever is registered there.
ThreadSetup(i) ==
    /\ consumer.threads[i].pc = "connected"
    /\ IF consumer.threads[i].cm.connection = "open"
       THEN ThreadStep(i, "setup",
                       [consumer.threads[i] EXCEPT !.channel = "open",
                                                   !.pc = "consuming"], i)
       ELSE ThreadStep(i, "setup", ConsumeFailed(consumer.threads[i]), 0)

ThreadConsumingRaises(i) ==
    /\ consumer.threads[i].pc = "consuming"
    /\ consumer.threads[i].cm.connection # "open"
    /\ ThreadStep(i, "raised", ConsumeFailed(consumer.threads[i]), 0)

\* start_consuming returns once stop() has called stop_consuming on the
\* thread's channel.
ThreadConsumingReturns(i) ==
    /\ consumer.threads[i].pc = "consuming"
    /\ consumer.threads[i].channel = NoVal
    /\ ThreadStep(i, "returned", [consumer.threads[i] EXCEPT !.pc = "pause"],
                  consumer.channels)

ThreadWake(i) ==
    /\ consumer.threads[i].pc \in {"sleep", "pause"}
    /\ ThreadStep(i, "wake", [consumer.threads[i] EXCEPT !.pc = "loop"],
                  consumer.channels)

ThreadSteps ==
    \E i \in 1..Len(consumer.threads) :
        \/ ThreadBegin(i) \/ ThreadWhile(i) \/ ThreadConnect(i) \/ ThreadSetup(i)
        \/ ThreadConsumingRaises(i) \/ ThreadConsumingReturns(i) \/ ThreadWake(i)

NextStartStop == Start \/ StopConsumer \/ ThreadSteps

SpecStartStop == InitStartStop /\ [][NextStartStop]_vars

\* The threads that are inside start_consuming on a live channel.
ActiveLoops ==
    {i \in 1..Len(consumer.threads) :
        /\ consumer.threads[i].pc = "consuming"
        /\ consumer.threads[i].channel = "open"
        /\ consumer.threads[i].cm.connection = "open"}

\* C37: across any sequence of start() and stop() calls at most one thread
\* is consuming from the queue.
C37_OneLoopPerQueue == Cardinality(ActiveLoops) <= 1

\* start() while running adds no thread (the half of C37 that the code keeps).
StartWhileRunningAddsNone ==
    [][ (Start /\ consumer.running) => consumer' = consumer ]_vars

\* ------------------------------------- the collection before an upsert
\* store() as the steps other store() calls can run between: the result
\* consumers of several service processes share one Qdrant.  A call is
\* [pc, vectors, ensured, upserted]; vectors says what the caller passed.
StoreInputs == {"empty", "invalid", "valid"}

\* The store lists no collection of the configured name.
AbsentCollection == [size |-> NoVal, distance |-> NoVal]

InitEnsure ==
    /\ points = {}
    /\ cache = << >>
    /\ outbox = << >>
    /\ last = [op |-> "init"]
    /\ broker = "up"
    /\ producer = NoVal
    /\ consumer = NoVal
    /\ manager = NoVal
    /\ handled = << >>
    /\ collection \in {AbsentCollection, ConfiguredCollection}
    /\ reconcilers = << >>

\* store() up to self.ensure_collection(): an empty list returns 0 at once.
StoreCalled ==
    /\ Len(reconcilers) < MaxStores
    /\ \E v \in StoreInputs :
          reconcilers' = Append(reconcilers,
                                [pc |-> IF v = "empty" THEN "done" ELSE "get_collections",
                                 vectors |-> v, ensured |-> NoVal, upserted |-> NoVal])
    /\ UNCHANGED <<points, cache, outbox, last, mqvars, handled, collection>>

\* A store() call that lets the exception of ensure_collection_exists end it.
EnsureCollectionPropagates(r, outcome) ==
    [r EXCEPT !.ensured = outcome,
              !.pc = IF outcome \in {"unreachable", "conflict"} THEN "done" ELSE "build"]

\* QdrantEmbeddingStore.ensure_collection returning to store(): whatever
\* ensure_collection_exists did or raised, store() goes on to build its points.
EnsureCollection(r, outcome) == [r EXCEPT !.ensured = outcome, !.pc = "build"]

\* client.get_collections() and the membership test: the call raises when
\* the store is unreachable, returns when the collection is listed, and goes
\* on to create_collection when it is not.
GetCollections(i, storeUp) ==
    /\ reconcilers[i].pc = "get_collections"
    /\ reconcilers' =
          [reconcilers EXCEPT ![i] =
              IF ~storeUp THEN EnsureCollection(@, "unreachable")
              ELSE IF collection # AbsentCollection THEN EnsureCollection(@, "exists")
              ELSE [@ EXCEPT !.pc = "create_collection"]]
    /\ UNCHANGED <<points, cache, outbox, last, mqvars, handled, collection>>

\* client.create_collection(VectorParams(size=embedding_dim, COSINE)): Qdrant
\* refuses to create a collection that exists, which it may by now.
CreateCollection(i, storeUp) ==
    /\ reconcilers[i].pc = "create_collection"
    /\ \E outcome \in {IF ~storeUp THEN "unreachable"
                       ELSE IF collection # AbsentCollection THEN "conflict" ELSE "created"} :
          /\ reconcilers' = [reconcilers EXCEPT ![i] = EnsureCollection(@, outcome)]
          /\ collection' = IF outcome = "created"
                           THEN [size |-> "EMBEDDING_DIM", distance |-> "COSINE"]
                           ELSE collection
    /\ UNCHANGED <<points, cache, outbox, last, mqvars, handled>>

\* The rest of store(): the loop that builds the points and the one upsert,
\* which is not sent when no vector was valid and raises when the store is
\* unreachable or has no such collection.
BuildAndUpsert(i, storeUp) ==
    /\ reconcilers[i].pc = "build"
    /\ \E o \in {Store(<<IF reconcilers[i].vectors = "valid" THEN Vec ELSE << >> >>,
                       <<Versions[i]>>, "r1", "o1",
                       storeUp /\ collection # AbsentCollection, points)} :
          /\ points' = o.pts
          /\ reconcilers' =
                [reconcilers EXCEPT ![i].pc = "done",
                                    ![i].upserted =
                                        IF reconcilers[i].vectors # "valid" THEN "nothing"
                                        ELSE IF o.raised THEN "raised" ELSE "stored"]
    /\ UNCHANGED <<cache, outbox, last, mqvars, handled, collection>>

StoreSteps ==
    \E i \in 1..Len(reconcilers) : \E s \in BOOLEAN :
        \/ GetCollections(i, s)
        \/ CreateCollection(i, s)
        \/ BuildAndUpsert(i, s)

NextEnsure == StoreCalled \/ StoreSteps

SpecEnsure == InitEnsure /\ [][NextEnsure]_vars

\* C38: before the upsert of a reconciliation the collection is created with
\* the configured dimensionality and cosine distance if it is absent, a
\* collection that is present is never created again (it and its points stay
\* as they are), and an error of ensuring the collection, from a concurrent
\* creation or from an unreachable store, is swallowed: every store() call
\* that has valid vectors still attempts its upsert.
C38_EnsureThenUpsert ==
    [][ /\ collection # AbsentCollection => (collection' = collection /\ points \subseteq points')
        /\ collection' # AbsentCollection => collection' = [size |-> "EMBEDDING_DIM", distance |-> "COSINE"]
        /\ \A i \in 1..Len(reconcilers) :
              /\ reconcilers[i].pc = "create_collection"
              /\ reconcilers'[i].pc # "create_collection"
              /\ reconcilers'[i].ensured = "created"
              => (collection = AbsentCollection /\ collection' # AbsentCollection)
        /\ \A i \in 1..Len(reconcilers') :
              /\ reconcilers'[i].ensured \in {"exists", "created", "conflict"}
                 => collection' # AbsentCollection
              /\ reconcilers'[i].pc = "done" /\ reconcilers'[i].vectors = "valid"
                 => reconcilers'[i].upserted \in {"stored", "raised"}
              /\ reconcilers'[i].upserted = "stored"
                 => \E p \in points' : p.text = Versions[i] ]_vars

\* Two store() calls found the collection absent: one created it, the
\* other's create_collection was refused, and both upserted their points.
C38_Witness ==
    /\ Len(reconcilers) = 2
    /\ \E i, j \in 1..2 :
          /\ reconcilers[i].ensured = "created"
          /\ reconcilers[j].ensured = "conflict"
    /\ \A i \in 1..2 : reconcilers[i].upserted = "stored"
    /\ collection = [size |-> "EMBEDDING_DIM", distance |-> "COSINE"]
    /\ Cardinality(points) = 2

\* ------------------------------------------ producers.py: rabbitmq_producer
\* The helper every publisher of the program goes through.  producer is here
\* the sequence of the RabbitMQProducer objects the calls constructed, in
\* call order; none is referenced once its call has returned.
InitHelper ==
    /\ points = {}
    /\ cache = << >>
    /\ outbox = << >>
    /\ last = [op |-> "init"]
    /\ broker \in {"up", "down"}
    /\ producer = << >>
    /\ consumer = NoVal
    /\ manager = NoVal
    /\ NoReconciliation

\* rabbitmq_producer(message, exchange_name, routing_key): a new
\* RabbitMQProducer, whose constructor initializes a connection manager of
\* its own, publishes the message; the function returns without close().
RabbitmqProducer ==
    /\ Len(producer) < MaxOpened
    /\ \E message \in {"m1", "m2"}, f \in Faults :
        \E r \in {PublishMessage(NewProducer(broker = "up"), outbox, message,
                                 broker = "up", f)} :
          /\ producer' = Append(producer, r.producer)
          /\ outbox' = r.out
          /\ last' = [op |-> "rabbitmq_producer", message |-> message,
                      published |-> r.published]
    /\ UNCHANGED <<points, cache, broker, consumer, manager, rcvars>>

\* The garbage collector reclaims the producer of an earlier call: the socket
\* of its connection is closed with it.  When this happens is not the
\* program's choice.
Collected ==
    /\ \E i \in 1..Len(producer) :
          /\ producer[i].cm.connection = "open"
          /\ producer' = [producer EXCEPT ![i] =
                             [channel |-> IF @.channel = "open" THEN "closed" ELSE @.channel,
                              cm |-> [@.cm EXCEPT !.connection = "closed"]]]
    /\ UNCHANGED <<points, cache, outbox, last, broker, consumer, manager, rcvars>>

\* The broker goes away between two calls; the connections of earlier calls
\* are lost with it.
HelperBrokerDown ==
    /\ broker = "up"
    /\ broker' = "down"
    /\ producer' = [i \in 1..Len(producer) |->
                       [channel |-> Noticed(Broken(producer[i].channel)),
                        cm |-> [producer[i].cm EXCEPT
                                   !.connection = Noticed(Broken(@))]]]
    /\ UNCHANGED <<points, cache, outbox, last, consumer, manager, rcvars>>

NextHelper == RabbitmqProducer \/ Collected \/ HelperBrokerDown \/ BrokerUp

SpecHelper == InitHelper /\ [][NextHelper]_vars

\* The producer connections the process holds open.
OpenProducerConnections == {i \in 1..Len(producer) : producer[i].cm.connection = "open"}

\* C40: publishing through rabbitmq_producer does not accumulate broker
\* connections: after any number of published messages at most one producer
\* connection is open in the process.
C40_AtMostOneOpenConnection == Cardinality(OpenProducerConnections) <= 1


=============================================================================
